---- MODULE Spec2Model ----
(***************************************************************************)
(* Verification model of the quantlib_examples notebooks.                  *)
(*                                                                         *)
(* Part I  (Spec):  the notebook kernel.  Every notebook is a sequence of  *)
(* cells, every cell a sequence of top-level statements; a run executes    *)
(* them top to bottom in one namespace.  Each statement is transcribed     *)
(* with the names it reads (globals read inside called functions           *)
(* included), the names it binds and the library effect it has.            *)
(***************************************************************************)
EXTENDS Integers, Sequences, FiniteSets, TLC

VARIABLES
  nb,        \* the notebook being run
  pc,        \* index of the next statement of the notebook
  status,    \* "running", "done" or "halted"
  err,       \* "none", or the exception that halted the run
  ns,        \* the kernel namespace: name -> binding
  evalDate,  \* ql.Settings.instance().evaluationDate (0: never assigned)
  evalSets,  \* number of assignments to the evaluation date
  inst,      \* the instruments: name -> construction data and attached engine
  priced,    \* log of the pricing computations
  evlog,     \* log of the uses of the evaluation date
  out        \* the printed outputs

kvars == <<nb, pc, status, err, ns, evalDate, evalSets, inst, priced, evlog, out>>

VARIABLES
  heap,      \* the xccy_swap objects constructed by the user code
  calls,     \* log of the fair_spread / npv calls and their outcomes
  curves,    \* the driver's curves: eur_curve, usd_curve, usd_curve_mod
  di,        \* driver: index of the next entry of maturities_xccy
  spreads,   \* driver: the list xccy_spreads_eur
  table,     \* driver: the DataFrame built from maturities and spreads
  dstatus    \* driver: "idle", "loop", "done" or "halted"

xvars == <<heap, calls, curves, di, spreads, table, dstatus>>

VARIABLES
  fstep,      \* forward_curves.ipynb: the next step of cells 3 to 5
  data,       \* the table read from the spreadsheet
  loaded,     \* the table as it was when read (history)
  end_dates,  \* the list end_dates
  fwd_rates,  \* the list fwd_rates
  fwd_curve,  \* the ForwardCurve, once built
  sample_fwds, \* the sampled instantaneous forward rates
  evaluationDate \* ql.Settings.instance().evaluationDate when cells 3 to 5 run

fvars == <<fstep, data, loaded, end_dates, fwd_rates, fwd_curve, sample_fwds, evaluationDate>>

VARIABLES
  qi,         \* build_fx_quotes.ipynb, FX forwards: index of the next entry of expiries_fwd
  quotes_fx,  \* the list quotes_fx
  fx_table,   \* the DataFrame built from expiries_fwd and quotes_fx
  fx_curves,  \* discount factors of eur_curve, usd_curve, usd_curve_mod at the maturities
  qstatus     \* "idle", "loop" or "done"

qvars == <<qi, quotes_fx, fx_table, fx_curves, qstatus>>

VARIABLES
  istep,      \* inflation_curves.md, index I: "idle", "edges", "interpolate" or "done"
  i_date,     \* the date yyyy-mm-dd whose index value is wanted
  lag,        \* the lag of the index, in months
  I           \* the index values assigned so far: date -> value

ivars == <<istep, i_date, lag, I>>

VARIABLES
  cstep,      \* CMS.ipynb, hand computation: the next statement of the cell
  cms_in,     \* the values the cell reads: S, sigma, shift, kappa, T0_period
  annuity,    \* the local annuity
  gamma,      \* the local gamma
  a_Tp,       \* the local a
  var,        \* the local var
  cms_rate,   \* the local cms_rate
  cms_out     \* the printed line: CMS rate and convexity adjustment

cvars == <<cstep, cms_in, annuity, gamma, a_Tp, var, cms_rate, cms_out>>

VARIABLES
  sw_in,      \* Swaption.ipynb, swaption_formula: the arguments other than sigma
  sw_i,       \* index of the next volatility of SwaptionSigmas
  sw_prices   \* the prices returned so far, one per volatility

wvars == <<sw_in, sw_i, sw_prices>>

VARIABLES
  gstep,      \* CMS_spread_options.ipynb: the next statement of cells 7 to 9
  g_in,       \* the values get_fv takes from swap1, swap2 and curve
  v_grid,     \* the list v_grid
  g_k,        \* index of the next element of v_grid in the comprehension
  integrand,  \* the list integrand
  evals,      \* log: the v of every evaluation of the integrand, in order
  trapezoids, \* log: the number of calls of trapezoid
  undiscounted_payoff, \* the scalar undiscounted_payoff
  spread_npv  \* the scalar npv of cell 9

gvars == <<gstep, g_in, v_grid, g_k, integrand, evals, trapezoids, undiscounted_payoff, spread_npv>>

VARIABLES
  bstep,        \* the next step of the round trip between the FX notebooks
  b_in,         \* eur_rate, usd_rate_mod and spot_fx of both notebooks
  b_i,          \* index of the next expiry in the running loop
  fx_created,   \* build_fx_quotes.ipynb: the column fx_fwd as computed
  fwd_quotes,   \* bootstrap_fx_discount_curve.ipynb: the column fx_fwd as fed
  mod_usd_discounts, \* discount factors of mod_usd_curve at the forward pillars
  mod_usd_zero  \* zero rates of mod_usd_curve at the forward pillars

bvars == <<bstep, b_in, b_i, fx_created, fwd_quotes, mod_usd_discounts, mod_usd_zero>>

VARIABLES
  vstep,         \* Swaption.ipynb, volcube cells: the next statement
  v_model,       \* which volcube cell runs: "lognormal" or "normal"
  expiries,      \* the list expiries
  tenors,        \* the list tenors
  strikeSpreads, \* the list strikeSpreads
  volSpreads,    \* the list of lists volSpreads
  volCube,       \* the object volCube
  vol_queries    \* log: the volatilities asked of volCube

vvars == <<vstep, v_model, expiries, tenors, strikeSpreads, volSpreads, volCube, vol_queries>>

VARIABLES
  mstep,       \* CMS_spread_options.ipynb, get_drift: the next statement
  m_args,      \* the arguments of the running call: swap, sigma and h
  m_schedule,  \* the local schedule
  m_S0,        \* the local S0
  m_h,         \* the local h, the parameter until line 109 rebinds it
  psi_plus,    \* the local psi_plus
  psi_minus,   \* the local psi_minus
  psi_zero,    \* the local psi_zero
  psi_prime,   \* the local psi_prime
  psi_second,  \* the local psi_second
  Talpha,      \* the local Talpha
  CMS_rate,    \* the local CMS_rate
  drift,       \* the local drift
  m_ret,       \* the value the running call returned, None until it returns
  m_last       \* log: arguments, step used and value of the call before the running one

mvars == <<mstep, m_args, m_schedule, m_S0, m_h, psi_plus, psi_minus, psi_zero, psi_prime,
           psi_second, Talpha, CMS_rate, drift, m_ret, m_last>>

vars == <<kvars, xvars, fvars, qvars, ivars, cvars, wvars, gvars, bvars, vvars, mvars>>

\* The variables that a step of one part leaves alone.
nonK == <<xvars, fvars, qvars, ivars, cvars, wvars, gvars, bvars, vvars, mvars>>
nonX == <<kvars, fvars, qvars, ivars, cvars, wvars, gvars, bvars, vvars, mvars>>
nonF == <<kvars, xvars, qvars, ivars, cvars, wvars, gvars, bvars, vvars, mvars>>
nonQ == <<kvars, xvars, fvars, ivars, cvars, wvars, gvars, bvars, vvars, mvars>>
nonI == <<kvars, xvars, fvars, qvars, cvars, wvars, gvars, bvars, vvars, mvars>>
nonC == <<kvars, xvars, fvars, qvars, ivars, wvars, gvars, bvars, vvars, mvars>>
nonW == <<kvars, xvars, fvars, qvars, ivars, cvars, gvars, bvars, vvars, mvars>>
nonG == <<kvars, xvars, fvars, qvars, ivars, cvars, wvars, bvars, vvars, mvars>>
nonB == <<kvars, xvars, fvars, qvars, ivars, cvars, wvars, gvars, vvars, mvars>>
nonV == <<kvars, xvars, fvars, qvars, ivars, cvars, wvars, gvars, bvars, mvars>>
nonM == <<kvars, xvars, fvars, qvars, ivars, cvars, wvars, gvars, bvars, vvars>>

\* One top-level statement of a code cell.
St(line, cell, op, kind, reads, writes, tags, eng, targets) ==
  [line |-> line, cell |-> cell, op |-> op, kind |-> kind, reads |-> reads,
   writes |-> writes, tags |-> tags, eng |-> eng, targets |-> targets]

SwaptionNb ==
  << St(10, 1, "import", "module", {}, {"pd"}, {}, "", {}),
     St(11, 1, "import", "module", {}, {"np"}, {}, "", {}),
     St(12, 1, "import", "module", {}, {"ql"}, {}, "", {}),
     St(13, 1, "import", "module", {}, {"plt"}, {}, "", {}),
     St(14, 1, "import", "module", {}, {"norm"}, {}, "", {}),
     St(49, 2, "build", "value", {"ql"}, {"today"}, {}, "", {}),
     St(50, 2, "seteval", "value", {"ql", "today"}, {}, {}, "", {}),
     St(52, 2, "build", "curve", {"ql", "today"}, {"forecast_curve"}, {}, "", {}),
     St(53, 2, "build", "curve", {"ql", "today"}, {"discount_curve"}, {}, "", {}),
     St(71, 3, "build", "value", {"ql"}, {"calendar"}, {}, "", {}),
     St(72, 3, "build", "inst", {"discount_curve", "forecast_curve", "ql"}, {"swap"}, {}, "", {}),
     St(73, 3, "build", "value", {"calendar", "ql", "today"}, {"exerciseDate"}, {}, "", {}),
     St(74, 3, "build", "inst", {"exerciseDate", "ql", "swap"}, {"swaption"}, {}, "", {}),
     St(131, 4, "py", "value", {}, {"yearfrac"}, {}, "", {}),
     St(132, 4, "call", "value", {"discount_curve", "swap", "yearfrac"}, {"annuity"}, {"query"}, "", {}),
     St(133, 4, "price", "result", {"swap"}, {"S"}, {}, "", {"swap"}),
     St(134, 4, "call", "value", {"swap"}, {"K"}, {}, "", {}),
     St(135, 4, "py", "value", {}, {"shift"}, {}, "", {}),
     St(137, 4, "def", "func", {}, {"swaption_formula"}, {}, "", {}),
     St(150, 4, "call", "value", {"K", "S", "annuity", "norm", "np", "shift", "swaption_formula"}, {"npv_sln"}, {}, "", {}),
     St(151, 4, "call", "value", {"K", "S", "annuity", "norm", "np", "swaption_formula"}, {"npv_n"}, {}, "", {}),
     St(154, 4, "print", "value", {"npv_sln", "shift"}, {}, {"print"}, "", {}),
     St(155, 4, "print", "value", {"npv_n"}, {}, {"print"}, "", {}),
     St(190, 5, "py", "value", {}, {"shift"}, {}, "", {}),
     St(191, 5, "build", "quote", {"ql"}, {"volatitility"}, {}, "", {}),
     St(193, 5, "attach", "engine", {"discount_curve", "ql", "shift", "swaption", "volatitility"}, {}, {}, "BlackSwaptionEngine", {"swaption"}),
     St(194, 5, "price", "result", {"swaption"}, {"npv"}, {}, "", {"swaption"}),
     St(196, 5, "print", "value", {"npv", "shift"}, {}, {"print"}, "", {}),
     St(222, 6, "build", "quote", {"ql"}, {"volatitility"}, {}, "", {}),
     St(224, 6, "attach", "engine", {"discount_curve", "ql", "swaption", "volatitility"}, {}, {}, "BachelierSwaptionEngine", {"swaption"}),
     St(225, 6, "price", "result", {"swaption"}, {"npv"}, {}, "", {"swaption"}),
     St(227, 6, "print", "value", {"npv"}, {}, {"print"}, "", {}),
     St(268, 7, "py", "value", {"ql"}, {"model"}, {}, "", {}),
     St(269, 7, "py", "value", {}, {"shift"}, {}, "", {}),
     St(270, 7, "build", "quote", {"ql"}, {"volatility"}, {}, "", {}),
     St(272, 7, "build", "vol", {"model", "ql", "shift", "volatility"}, {"constantSwaptionVol"}, {"refEval"}, "", {}),
     St(273, 7, "build", "vol", {"constantSwaptionVol", "ql"}, {"constantSwaptionVol"}, {}, "", {}),
     St(275, 7, "attach", "engine", {"constantSwaptionVol", "discount_curve", "ql", "swaption"}, {}, {}, "BlackSwaptionEngine", {"swaption"}),
     St(276, 7, "price", "result", {"swaption"}, {"npv"}, {}, "", {"swaption"}),
     St(278, 7, "print", "value", {"npv", "shift"}, {}, {"print"}, "", {}),
     St(304, 8, "py", "value", {"ql"}, {"model"}, {}, "", {}),
     St(305, 8, "build", "quote", {"ql"}, {"volatility"}, {}, "", {}),
     St(307, 8, "build", "vol", {"model", "ql", "volatility"}, {"constantSwaptionVol"}, {"refEval"}, "", {}),
     St(308, 8, "build", "vol", {"constantSwaptionVol", "ql"}, {"constantSwaptionVol"}, {}, "", {}),
     St(310, 8, "attach", "engine", {"constantSwaptionVol", "discount_curve", "ql", "swaption"}, {}, {}, "BachelierSwaptionEngine", {"swaption"}),
     St(311, 8, "price", "result", {"swaption"}, {"npv"}, {}, "", {"swaption"}),
     St(313, 8, "print", "value", {"npv"}, {}, {"print"}, "", {}),
     St(352, 9, "py", "value", {}, {"expiries"}, {}, "", {}),
     St(353, 9, "py", "value", {}, {"tenors"}, {}, "", {}),
     St(356, 9, "py", "value", {}, {"vols"}, {}, "", {}),
     St(377, 9, "build", "value", {"np", "ql", "vols"}, {"shifts"}, {}, "", {}),
     St(379, 9, "build", "value", {"expiries", "ql"}, {"expiries"}, {}, "", {}),
     St(380, 9, "build", "value", {"ql", "tenors"}, {"tenors"}, {}, "", {}),
     St(381, 9, "build", "value", {"np", "ql", "vols"}, {"vols"}, {}, "", {}),
     St(383, 9, "build", "vol", {"calendar", "expiries", "ql", "shifts", "tenors", "vols"}, {"volsurface"}, {}, "", {}),
     St(384, 9, "build", "vol", {"ql", "volsurface"}, {"volsurface"}, {}, "", {}),
     St(386, 9, "attach", "engine", {"discount_curve", "ql", "swaption", "volsurface"}, {}, {}, "BlackSwaptionEngine", {"swaption"}),
     St(387, 9, "price", "result", {"swaption"}, {}, {}, "", {"swaption"}),
     St(389, 9, "py", "value", {"volsurface"}, {"volsurface_ATM_lognormal"}, {}, "", {}),
     St(391, 9, "print", "value", {"npv"}, {}, {"print"}, "", {}),
     St(418, 10, "py", "value", {}, {"expiries"}, {}, "", {}),
     St(419, 10, "py", "value", {}, {"tenors"}, {}, "", {}),
     St(422, 10, "py", "value", {}, {"vols"}, {}, "", {}),
     St(442, 10, "build", "value", {"expiries", "ql"}, {"expiries"}, {}, "", {}),
     St(443, 10, "build", "value", {"ql", "tenors"}, {"tenors"}, {}, "", {}),
     St(444, 10, "build", "value", {"np", "ql", "vols"}, {"vols"}, {}, "", {}),
     St(446, 10, "build", "vol", {"calendar", "expiries", "ql", "tenors", "vols"}, {"volsurface"}, {}, "", {}),
     St(447, 10, "build", "vol", {"ql", "volsurface"}, {"volsurface"}, {}, "", {}),
     St(449, 10, "attach", "engine", {"discount_curve", "ql", "swaption", "volsurface"}, {}, {}, "BachelierSwaptionEngine", {"swaption"}),
     St(450, 10, "price", "result", {"swaption"}, {}, {}, "", {"swaption"}),
     St(452, 10, "py", "value", {"volsurface"}, {"volsurface_ATM_normal"}, {}, "", {}),
     St(454, 10, "print", "value", {"npv"}, {}, {"print"}, "", {}),
     St(512, 11, "py", "value", {}, {"expiries"}, {}, "", {}),
     St(513, 11, "py", "value", {}, {"tenors"}, {}, "", {}),
     St(514, 11, "py", "value", {}, {"strikeSpreads"}, {}, "", {}),
     St(515, 11, "py", "value", {}, {"volSpreads"}, {}, "", {}),
     St(524, 11, "build", "value", {"expiries", "ql"}, {"expiries"}, {}, "", {}),
     St(525, 11, "build", "value", {"ql", "tenors"}, {"tenors"}, {}, "", {}),
     St(526, 11, "build", "quote", {"pd", "ql", "volSpreads"}, {"volSpreads"}, {}, "", {}),
     St(529, 11, "build", "index", {"discount_curve", "forecast_curve", "ql"}, {"swapIndexBase"}, {}, "", {}),
     St(530, 11, "build", "index", {"discount_curve", "forecast_curve", "ql"}, {"shortSwapIndexBase"}, {}, "", {}),
     St(531, 11, "py", "value", {}, {"vegaWeightedSmileFit"}, {}, "", {}),
     St(533, 11, "build", "vol", {"expiries", "ql", "shortSwapIndexBase", "strikeSpreads", "swapIndexBase", "tenors", "vegaWeightedSmileFit", "volSpreads", "volsurface_ATM_lognormal"}, {"volCube"}, {}, "", {}),
     St(541, 11, "build", "vol", {"ql", "volCube"}, {"volCube"}, {}, "", {}),
     St(542, 11, "call", "value", {"volCube"}, {}, {}, "", {}),
     St(545, 11, "attach", "engine", {"discount_curve", "ql", "swaption", "volCube"}, {}, {}, "BlackSwaptionEngine", {"swaption"}),
     St(546, 11, "price", "result", {"swaption"}, {"npv"}, {}, "", {"swaption"}),
     St(548, 11, "print", "value", {"npv"}, {}, {"print"}, "", {}),
     St(574, 12, "py", "value", {}, {"expiries"}, {}, "", {}),
     St(575, 12, "py", "value", {}, {"tenors"}, {}, "", {}),
     St(576, 12, "py", "value", {}, {"strikeSpreads"}, {}, "", {}),
     St(577, 12, "py", "value", {}, {"volSpreads"}, {}, "", {}),
     St(586, 12, "build", "value", {"expiries", "ql"}, {"expiries"}, {}, "", {}),
     St(587, 12, "build", "value", {"ql", "tenors"}, {"tenors"}, {}, "", {}),
     St(588, 12, "build", "quote", {"pd", "ql", "volSpreads"}, {"volSpreads"}, {}, "", {}),
     St(591, 12, "build", "index", {"discount_curve", "forecast_curve", "ql"}, {"swapIndexBase"}, {}, "", {}),
     St(592, 12, "build", "index", {"discount_curve", "forecast_curve", "ql"}, {"shortSwapIndexBase"}, {}, "", {}),
     St(593, 12, "py", "value", {}, {"vegaWeightedSmileFit"}, {}, "", {}),
     St(595, 12, "build", "vol", {"expiries", "ql", "shortSwapIndexBase", "strikeSpreads", "swapIndexBase", "tenors", "vegaWeightedSmileFit", "volSpreads", "volsurface_ATM_normal"}, {"volCube"}, {}, "", {}),
     St(603, 12, "build", "vol", {"ql", "volCube"}, {"volCube"}, {}, "", {}),
     St(604, 12, "call", "value", {"volCube"}, {}, {}, "", {}),
     St(607, 12, "attach", "engine", {"discount_curve", "ql", "swaption", "volCube"}, {}, {}, "BachelierSwaptionEngine", {"swaption"}),
     St(608, 12, "price", "result", {"swaption"}, {"npv"}, {}, "", {"swaption"}),
     St(610, 12, "print", "value", {"npv"}, {}, {"print"}, "", {}) >>

CMSNb ==
  << St(10, 1, "import", "module", {}, {"ql"}, {}, "", {}),
     St(11, 1, "import", "module", {}, {"np"}, {}, "", {}),
     St(131, 2, "build", "value", {"ql"}, {"today"}, {}, "", {}),
     St(132, 2, "seteval", "value", {"ql", "today"}, {}, {}, "", {}),
     St(135, 2, "build", "curve", {"ql"}, {"discount_curve"}, {"refEval"}, "", {}),
     St(136, 2, "build", "curve", {"ql"}, {"forecast_curve"}, {"refEval"}, "", {}),
     St(158, 3, "py", "value", {}, {"sigma"}, {}, "", {}),
     St(159, 3, "py", "value", {}, {"shift"}, {}, "", {}),
     St(160, 3, "py", "value", {}, {"kappa"}, {}, "", {}),
     St(162, 3, "build", "value", {"ql"}, {"T0_period"}, {}, "", {}),
     St(163, 3, "build", "value", {"ql"}, {"Tp_period"}, {}, "", {}),
     St(165, 3, "py", "value", {"T0_period", "today"}, {"T0"}, {}, "", {}),
     St(166, 3, "py", "value", {"Tp_period", "today"}, {"Tp"}, {}, "", {}),
     St(168, 3, "py", "value", {}, {"fixingDays"}, {}, "", {}),
     St(170, 3, "build", "value", {"ql"}, {"swap_tenor"}, {}, "", {}),
     St(171, 3, "py", "value", {"T0", "swap_tenor"}, {"TN"}, {}, "", {}),
     St(173, 3, "print", "value", {"today"}, {}, {"print"}, "", {}),
     St(174, 3, "print", "value", {"T0", "TN", "swap_tenor"}, {}, {"print"}, "", {}),
     St(175, 3, "print", "value", {"T0", "Tp"}, {}, {"print"}, "", {}),
     St(203, 4, "build", "index", {"discount_curve", "forecast_curve", "ql", "swap_tenor"}, {"swapIndex"}, {}, "", {}),
     St(206, 4, "py", "value", {}, {"nominal"}, {}, "", {}),
     St(207, 4, "build", "inst", {"T0", "Tp", "fixingDays", "nominal", "ql", "swapIndex"}, {"cms"}, {}, "", {}),
     St(208, 4, "build", "vol", {"fixingDays", "ql", "shift", "sigma"}, {"swaptionVol"}, {"refEval"}, "", {}),
     St(209, 4, "build", "vol", {"ql", "swaptionVol"}, {"swvol_handle"}, {}, "", {}),
     St(210, 4, "build", "quote", {"kappa", "ql"}, {"mean_reversion"}, {}, "", {}),
     St(211, 4, "build", "pricer", {"mean_reversion", "ql", "swvol_handle"}, {"cms_pricer"}, {}, "", {}),
     St(212, 4, "attach", "engine", {"cms", "cms_pricer"}, {}, {}, "LinearTsrPricer", {"cms"}),
     St(215, 4, "price", "result", {"cms"}, {}, {"print"}, "", {"cms"}),
     St(216, 4, "price", "result", {"cms", "discount_curve", "ql"}, {}, {"print"}, "", {"cms"}),
     St(235, 5, "build", "inst", {"T0_period", "discount_curve", "forecast_curve", "ql", "swap_tenor"}, {"swp"}, {}, "", {}),
     St(242, 5, "price", "result", {"swp"}, {"S"}, {}, "", {"swp"}),
     St(256, 6, "def", "func", {}, {"G"}, {}, "", {}),
     St(257, 6, "def", "func", {}, {"yearfrac"}, {}, "", {}),
     St(259, 6, "call", "value", {"discount_curve", "ql", "swp", "yearfrac"}, {"annuity"}, {"query"}, "", {}),
     St(260, 6, "call", "value", {"G", "T0", "annuity", "discount_curve", "kappa", "np", "ql", "swp", "yearfrac"}, {"gamma"}, {"query"}, "", {}),
     St(263, 6, "call", "value", {"G", "S", "T0", "TN", "Tp", "annuity", "discount_curve", "gamma", "kappa", "np", "ql", "yearfrac"}, {"a"}, {"query"}, "", {}),
     St(264, 6, "call", "value", {"S", "T0", "np", "ql", "shift", "sigma", "today", "yearfrac"}, {"var"}, {}, "", {}),
     St(265, 6, "call", "value", {"S", "Tp", "a", "annuity", "discount_curve", "var"}, {"cms_rate"}, {"query"}, "", {}),
     St(283, 7, "print", "value", {"S", "cms_rate"}, {}, {"print"}, "", {}) >>

CMSSpreadNb ==
  << St(10, 1, "import", "module", {}, {"pd"}, {}, "", {}),
     St(11, 1, "import", "module", {}, {"np"}, {}, "", {}),
     St(12, 1, "import", "module", {}, {"norm"}, {}, "", {}),
     St(13, 1, "import", "module", {}, {"ql"}, {}, "", {}),
     St(14, 1, "import", "module", {}, {"trapezoid"}, {}, "", {}),
     St(62, 2, "build", "value", {"ql"}, {"today"}, {}, "", {}),
     St(63, 2, "seteval", "value", {"ql", "today"}, {}, {}, "", {}),
     St(73, 3, "build", "curve", {"ql"}, {"curve"}, {"refEval"}, "", {}),
     St(83, 4, "build", "index", {"curve", "ql"}, {"index"}, {}, "", {}),
     St(84, 4, "build", "inst", {"index", "ql"}, {"swap1"}, {}, "", {}),
     St(85, 4, "build", "inst", {"index", "ql"}, {"swap2"}, {}, "", {}),
     St(95, 5, "def", "func", {}, {"psi"}, {}, "", {}),
     St(97, 5, "def", "func", {}, {"get_drift"}, {}, "", {}),
     St(125, 5, "def", "func", {}, {"get_fv"}, {}, "", {}),
     St(152, 6, "call", "value", {"np"}, {"v_grid"}, {}, "", {}),
     St(153, 6, "price", "result", {"curve", "get_drift", "get_fv", "norm", "np", "psi", "swap1", "swap2", "today", "v_grid"}, {"integrand"}, {}, "", {"swap1", "swap2"}),
     St(174, 7, "call", "value", {"integrand", "trapezoid", "v_grid"}, {"undiscounted_payoff"}, {}, "", {}),
     St(175, 7, "print", "value", {"undiscounted_payoff"}, {}, {"print"}, "", {}),
     St(196, 8, "call", "value", {"curve", "swap1", "undiscounted_payoff"}, {"npv"}, {"query"}, "", {}),
     St(197, 8, "print", "value", {"npv"}, {}, {"print"}, "", {}) >>

ForwardCurvesNb ==
  << St(24, 1, "import", "module", {}, {"ql"}, {}, "", {}),
     St(25, 1, "import", "module", {}, {"plt"}, {}, "", {}),
     St(26, 1, "import", "module", {}, {"pd"}, {}, "", {}),
     St(27, 1, "import", "module", {}, {"np"}, {}, "", {}),
     St(32, 1, "def", "func", {}, {"dt_to_ql_Date"}, {}, "", {}),
     St(73, 2, "call", "value", {"ql"}, {}, {"print", "query"}, "", {}),
     St(77, 2, "seteval", "value", {"ql"}, {}, {}, "", {}),
     St(78, 2, "call", "value", {"ql"}, {}, {"print", "query", "refEval"}, "", {}),
     St(202, 3, "call", "value", {"pd"}, {"data"}, {}, "", {}),
     St(203, 3, "print", "value", {"data"}, {}, {"print"}, "", {}),
     St(222, 4, "call", "value", {"data", "dt_to_ql_Date", "ql"}, {"end_dates"}, {}, "", {}),
     St(223, 4, "call", "value", {"data"}, {"fwd_rates"}, {}, "", {}),
     St(225, 4, "py", "value", {"fwd_rates"}, {}, {"mutate"}, "", {}),
     St(227, 4, "print", "value", {"end_dates"}, {}, {"print"}, "", {}),
     St(228, 4, "print", "value", {"fwd_rates"}, {}, {"print"}, "", {}),
     St(230, 4, "build", "curve", {"end_dates", "fwd_rates", "ql"}, {"fwd_curve"}, {}, "", {}),
     St(256, 5, "build", "value", {"end_dates", "ql"}, {"sample_dates"}, {}, "", {}),
     St(257, 5, "call", "value", {"fwd_curve", "ql", "sample_dates"}, {"sample_fwds"}, {"query"}, "", {}),
     St(260, 5, "call", "value", {"plt"}, {}, {}, "", {}),
     St(261, 5, "call", "value", {"plt", "sample_dates", "sample_fwds"}, {}, {}, "", {}) >>

BuildFxNb ==
  << St(9, 1, "import", "module", {}, {"pd"}, {}, "", {}),
     St(10, 1, "import", "module", {}, {"ql"}, {}, "", {}),
     St(31, 2, "build", "value", {"ql"}, {"date"}, {}, "", {}),
     St(32, 2, "seteval", "value", {"date", "ql"}, {}, {}, "", {}),
     St(34, 2, "py", "value", {}, {"eur_rate"}, {}, "", {}),
     St(35, 2, "py", "value", {}, {"usd_rate"}, {}, "", {}),
     St(36, 2, "py", "value", {}, {"usd_rate_mod"}, {}, "", {}),
     St(37, 2, "py", "value", {}, {"spot_fx"}, {}, "", {}),
     St(39, 2, "py", "value", {}, {"expiries_fwd"}, {}, "", {}),
     St(40, 2, "py", "value", {}, {"maturities_xccy"}, {}, "", {}),
     St(49, 3, "build", "curve", {"date", "eur_rate", "ql"}, {"eur_curve"}, {}, "", {}),
     St(50, 3, "build", "curve", {"date", "ql", "usd_rate"}, {"usd_curve"}, {}, "", {}),
     St(51, 3, "build", "curve", {"date", "ql", "usd_rate_mod"}, {"usd_curve_mod"}, {}, "", {}),
     St(144, 4, "py", "value", {}, {"quotes_fx"}, {}, "", {}),
     St(145, 4, "call", "value", {"date", "eur_curve", "expiries_fwd", "ql", "quotes_fx", "spot_fx", "usd_curve_mod"}, {"expiry", "fwd_maturity"}, {"query"}, "", {}),
     St(149, 4, "call", "value", {"expiries_fwd", "pd", "quotes_fx"}, {"quotes_fx"}, {}, "", {}),
     St(150, 4, "print", "value", {"quotes_fx"}, {}, {"print"}, "", {}),
     St(170, 5, "def", "func", {"ql"}, {"xccy_swap"}, {}, "", {}),
     St(293, 6, "py", "value", {}, {"xccy_spreads_eur"}, {}, "", {}),
     St(294, 6, "price", "result", {"date", "eur_curve", "maturities_xccy", "ql", "usd_curve", "usd_curve_mod", "xccy_spreads_eur", "xccy_swap"}, {"maturity", "tenor_years"}, {}, "", {}),
     St(298, 6, "call", "value", {"maturities_xccy", "pd", "xccy_spreads_eur"}, {"xccy_spreads_eur"}, {}, "", {}),
     St(299, 6, "print", "value", {"xccy_spreads_eur"}, {}, {"print"}, "", {}) >>

BootstrapFxNb ==
  << St(9, 1, "import", "module", {}, {"pd"}, {}, "", {}),
     St(10, 1, "import", "module", {}, {"ql"}, {}, "", {}),
     St(11, 1, "import", "module", {}, {"plt"}, {}, "", {}),
     St(12, 1, "import", "module", {}, {"np"}, {}, "", {}),
     St(214, 2, "build", "value", {"ql"}, {"date"}, {}, "", {}),
     St(215, 2, "seteval", "value", {"date", "ql"}, {}, {}, "", {}),
     St(217, 2, "py", "value", {}, {"eur_rate"}, {}, "", {}),
     St(218, 2, "py", "value", {}, {"usd_rate"}, {}, "", {}),
     St(219, 2, "py", "value", {}, {"spot_fx"}, {}, "", {}),
     St(221, 2, "call", "value", {"pd"}, {"fwd_quotes"}, {}, "", {}),
     St(225, 2, "call", "value", {"pd"}, {"xccy_quotes"}, {}, "", {}),
     St(229, 2, "print", "value", {}, {}, {"print"}, "", {}),
     St(230, 2, "print", "value", {"fwd_quotes"}, {}, {"print"}, "", {}),
     St(232, 2, "print", "value", {}, {}, {"print"}, "", {}),
     St(233, 2, "print", "value", {"xccy_quotes"}, {}, {"print"}, "", {}),
     St(249, 3, "build", "curve", {"date", "eur_rate", "ql"}, {"eur_curve"}, {}, "", {}),
     St(251, 3, "build", "curve", {"date", "ql", "usd_rate"}, {"usd_curve"}, {}, "", {}),
     St(268, 4, "py", "value", {}, {"helpers_fwd"}, {}, "", {}),
     St(269, 4, "build", "helper", {"eur_curve", "fwd_quotes", "helpers_fwd", "ql", "spot_fx"}, {"fwd", "fwd_points", "helper", "tenor"}, {}, "", {}),
     St(291, 5, "build", "index", {"eur_curve", "ql"}, {"baseCurrencyIndex"}, {}, "", {}),
     St(292, 5, "build", "index", {"ql", "usd_curve"}, {"quoteCurrencyIndex"}, {}, "", {}),
     St(294, 5, "py", "value", {}, {"helpers_xccy"}, {}, "", {}),
     St(295, 5, "build", "helper", {"baseCurrencyIndex", "eur_curve", "helpers_xccy", "ql", "quoteCurrencyIndex", "xccy_quotes"}, {"basis", "eur_spread", "helper", "tenor"}, {}, "", {}),
     St(337, 6, "build", "curve", {"helpers_fwd", "helpers_xccy", "ql"}, {"mod_usd_curve"}, {"refEval"}, "", {}),
     St(341, 6, "call", "value", {"np"}, {"times"}, {}, "", {}),
     St(342, 6, "price", "result", {"mod_usd_curve", "ql", "times"}, {"mod_usd_rates"}, {"query"}, "", {}),
     St(344, 6, "call", "value", {"plt"}, {"ax", "fig"}, {}, "", {}),
     St(345, 6, "call", "value", {"ax", "mod_usd_rates", "times"}, {}, {}, "", {}),
     St(346, 6, "call", "value", {"ax"}, {}, {}, "", {}),
     St(347, 6, "call", "value", {"ax"}, {}, {}, "", {}),
     St(348, 6, "call", "value", {"ax"}, {}, {}, "", {}),
     St(349, 6, "call", "value", {"ax"}, {}, {}, "", {}) >>

Notebooks == {"Swaption", "CMS", "CMSSpread", "ForwardCurves", "BuildFx", "BootstrapFx"}

\* Mutant: CMS_spread_options builds its curve before assigning the evaluation date.
Swap78(t) == [i \in 1..Len(t) |-> IF i = 7 THEN t[8] ELSE IF i = 8 THEN t[7] ELSE t[i]]
ProgCurveBeforeDate(n) ==
  CASE n = "Swaption"      -> SwaptionNb
    [] n = "CMS"           -> CMSNb
    [] n = "CMSSpread"     -> Swap78(CMSSpreadNb)
    [] n = "ForwardCurves" -> ForwardCurvesNb
    [] n = "BuildFx"       -> BuildFxNb
    [] n = "BootstrapFx"   -> BootstrapFxNb

Prog(n) ==
  CASE n = "Swaption"      -> SwaptionNb
    [] n = "CMS"           -> CMSNb
    [] n = "CMSSpread"     -> CMSSpreadNb
    [] n = "ForwardCurves" -> ForwardCurvesNb
    [] n = "BuildFx"       -> BuildFxNb
    [] n = "BootstrapFx"   -> BootstrapFxNb

Cur == Prog(nb)[pc]

\* Kinds of bindings that are library objects with a computed value.
ObjKinds == {"curve", "vol", "inst", "index"}

NoEngine == [kind |-> "none", line |-> 0, cell |-> 0]

\* Names a statement reads that no earlier statement has bound (NameError).
Undefined(s) == s.reads \ DOMAIN ns

\* The binding a statement gives to the names it assigns.
Val(s, e) == [line |-> s.line, cell |-> s.cell, kind |-> s.kind, ev |-> evalDate,
              engLine |-> e.line, engCell |-> e.cell]

\* Mutant: the result of a pricing call is computed but not assigned.
BindDropResult(s, e) ==
  [n \in (DOMAIN ns) \cup (IF s.kind = "result" THEN {} ELSE s.writes) |->
     IF n \in s.writes THEN Val(s, e) ELSE ns[n]]

Bind(s, e) ==
  [n \in (DOMAIN ns) \cup s.writes |-> IF n \in s.writes THEN Val(s, e) ELSE ns[n]]

\* Top-to-bottom execution: the next statement, or the end of the run.
Advance ==
  /\ pc' = pc + 1
  /\ status' = IF pc = Len(Prog(nb)) THEN "done" ELSE "running"

\* Mutant: the exception is swallowed and the run goes on to the next statement.
PropagateSwallowed(e) ==
  /\ status' = "running"
  /\ err' = e
  /\ pc' = pc + 1
  /\ UNCHANGED <<nb, ns, evalDate, evalSets, inst, priced, evlog, out>>

\* No statement of any notebook is inside a try block: an exception
\* propagates to the kernel, which stops the run at that statement.
Propagate(e) ==
  /\ status' = "halted"
  /\ err' = e
  /\ UNCHANGED <<nb, pc, ns, evalDate, evalSets, inst, priced, evlog, out>>

Running == status = "running" /\ pc \in 1..Len(Prog(nb))

\* What a statement shows: the bindings of the names it formats.
Shown(s) == [n \in s.reads |-> ns[n]]

Emit(s) ==
  IF "print" \in s.tags
    THEN Append(out, [line |-> s.line, cell |-> s.cell, shown |-> Shown(s)])
    ELSE out

\* The record of a statement that depends on the evaluation date or
\* computes the value of library objects.
Stamp(s) ==
  IF s.op = "price" \/ s.tags \cap {"refEval", "query"} # {}
    THEN Append(evlog, [line |-> s.line, op |-> s.op, tags |-> s.tags, ev |-> evalDate,
                         stamps |-> {ns[n].ev : n \in {m \in s.reads : ns[m].kind \in ObjKinds}}])
    ELSE evlog

\* A new instrument: its parameters are the bindings it was built from.
NewInst(s) ==
  [made |-> s.line, cell |-> s.cell,
   params |-> {<<n, ns[n].line>> : n \in {m \in s.reads : ns[m].kind # "module"}},
   engine |-> NoEngine]

Construct(s) ==
  IF s.kind = "inst"
    THEN [n \in (DOMAIN inst) \cup s.writes |-> IF n \in s.writes THEN NewInst(s) ELSE inst[n]]
    ELSE inst

\* Mutant: attaching an engine rebuilds the instrument.
AttachRebuilds(i, s) ==
  [inst EXCEPT ![i] = [made |-> s.line, cell |-> s.cell, params |-> {},
                       engine |-> [kind |-> s.eng, line |-> s.line, cell |-> s.cell]]]

\* Mutant: an engine is attached only to an instrument that has none.
AttachOnce(i, s) ==
  IF inst[i].engine = NoEngine
    THEN [inst EXCEPT ![i].engine = [kind |-> s.eng, line |-> s.line, cell |-> s.cell]]
    ELSE inst

\* setPricingEngine / setPricer: replaces the engine, nothing else.
Attach(i, s) ==
  [inst EXCEPT ![i].engine = [kind |-> s.eng, line |-> s.line, cell |-> s.cell]]

\* The engine under which a pricing statement computes its result.
EngineOf(s) ==
  IF s.targets = {} THEN NoEngine
  ELSE inst[CHOOSE t \in s.targets : TRUE].engine

PriceEvent(s) ==
  [line |-> s.line, cell |-> s.cell,
   insts |-> {inst[t].made : t \in s.targets},
   engs  |-> {inst[t].engine : t \in s.targets} \ {NoEngine}]

----
\* import, def and pure Python statements
ExecPy ==
  /\ UNCHANGED nonK
  /\ Running /\ Cur.op \in {"import", "def", "py"}
  /\ IF Undefined(Cur) # {} THEN Propagate("NameError")
     ELSE /\ ns' = Bind(Cur, NoEngine)
          /\ Advance
          /\ UNCHANGED <<nb, err, evalDate, evalSets, inst, priced, evlog, out>>

\* a library constructor or a library call that binds its result
ExecLib ==
  /\ UNCHANGED nonK
  /\ Running /\ Cur.op \in {"build", "call"}
  /\ IF Undefined(Cur) # {} THEN Propagate("NameError")
     ELSE /\ ns' = Bind(Cur, NoEngine)
          /\ inst' = Construct(Cur)
          /\ evlog' = Stamp(Cur)
          /\ out' = Emit(Cur)
          /\ Advance
          /\ UNCHANGED <<nb, err, evalDate, evalSets, priced>>

\* ql.Settings.instance().evaluationDate = ...
ExecSetEvalDate ==
  /\ UNCHANGED nonK
  /\ Running /\ Cur.op = "seteval"
  /\ IF Undefined(Cur) # {} THEN Propagate("NameError")
     ELSE /\ evalDate' = Cur.line
          /\ evalSets' = evalSets + 1
          /\ Advance
          /\ UNCHANGED <<nb, err, ns, inst, priced, evlog, out>>

\* instrument.setPricingEngine(...) / coupon.setPricer(...)
ExecAttach ==
  /\ UNCHANGED nonK
  /\ Running /\ Cur.op = "attach"
  /\ IF Undefined(Cur) # {} THEN Propagate("NameError")
     ELSE /\ inst' = Attach(CHOOSE t \in Cur.targets : TRUE, Cur)
          /\ Advance
          /\ UNCHANGED <<nb, err, ns, evalDate, evalSets, priced, evlog, out>>

\* NPV(), fairRate(), rate(), price(), CashFlows.npv, a bootstrap
ExecPrice ==
  /\ UNCHANGED nonK
  /\ Running /\ Cur.op = "price"
  /\ IF Undefined(Cur) # {} THEN Propagate("NameError")
     ELSE /\ ns' = Bind(Cur, EngineOf(Cur))
          /\ priced' = Append(priced, PriceEvent(Cur))
          /\ evlog' = Stamp(Cur)
          /\ out' = Emit(Cur)
          /\ Advance
          /\ UNCHANGED <<nb, err, evalDate, evalSets, inst>>

\* print(...), display(...), or a bare expression at the end of a cell
ExecPrint ==
  /\ UNCHANGED nonK
  /\ Running /\ Cur.op = "print"
  /\ IF Undefined(Cur) # {} THEN Propagate("NameError")
     ELSE /\ out' = Emit(Cur)
          /\ Advance
          /\ UNCHANGED <<nb, err, ns, evalDate, evalSets, inst, priced, evlog>>

\* a call into the external library raises
Raise ==
  /\ UNCHANGED nonK
  /\ Running /\ Cur.op \in {"build", "call", "seteval", "attach", "price"}
  /\ Propagate("LibraryError")

KInit ==
  /\ nb \in Notebooks
  /\ pc = 1
  /\ status = "running"
  /\ err = "none"
  /\ ns = <<>>
  /\ evalDate = 0
  /\ evalSets = 0
  /\ inst = <<>>
  /\ priced = <<>>
  /\ evlog = <<>>
  /\ out = <<>>

KIdle ==
  /\ nb = "none" /\ pc = 0 /\ status = "idle" /\ err = "none" /\ ns = <<>>
  /\ evalDate = 0 /\ evalSets = 0 /\ inst = <<>> /\ priced = <<>> /\ evlog = <<>> /\ out = <<>>
----
(***************************************************************************)
(* Part II: the xccy_swap helper of build_fx_quotes.ipynb and the cell     *)
(* that builds the xccy quotes.  Amounts, discount factors and spreads are *)
(* exact rationals <<numerator, denominator>>; a flat curve is given by    *)
(* its one-year discount factor, and dates are whole years after the       *)
(* pricing date (annual schedule, SimpleDayCounter, NullCalendar).         *)
(***************************************************************************)
MaxTenor == 5
MaxCalls == 2
MaxSecantIter == 3

RECURSIVE GCD(_, _)
GCD(a, b) == IF b = 0 THEN a ELSE GCD(b, a % b)
Abs(x) == IF x < 0 THEN -x ELSE x
Norm(n, d) ==
  LET g == GCD(Abs(n), Abs(d))
      sg == IF d < 0 THEN -1 ELSE 1
  IN  <<sg * (n \div g), sg * (d \div g)>>
Zero == <<0, 1>>
One == <<1, 1>>
RAdd(a, b) ==
  LET l == (a[2] \div GCD(a[2], b[2])) * b[2]
  IN  Norm(a[1] * (l \div a[2]) + b[1] * (l \div b[2]), l)
RNeg(a) == <<-a[1], a[2]>>
RSub(a, b) == RAdd(a, RNeg(b))
RMul(a, b) ==
  LET g1 == GCD(Abs(a[1]), b[2])
      g2 == GCD(Abs(b[1]), a[2])
  IN  Norm((a[1] \div g1) * (b[1] \div g2), (a[2] \div g2) * (b[2] \div g1))
RInv(a) == Norm(a[2], a[1])
RDiv(a, b) == RMul(a, RInv(b))
RAbs(a) == <<Abs(a[1]), a[2]>>
RLess(a, b) ==
  LET l == (a[2] \div GCD(a[2], b[2])) * b[2]
  IN  a[1] * (l \div a[2]) < b[1] * (l \div b[2])
RECURSIVE RPow(_, _)
RPow(a, k) == IF k = 0 THEN One ELSE RMul(a, RPow(a, k - 1))
RECURSIVE RSum(_)
RSum(s) == IF s = <<>> THEN Zero ELSE RAdd(Head(s), RSum(Tail(s)))

\* Flat curves, by their one-year discount factor.
Curves == {<<1, 1>>, <<3, 4>>, <<1, 2>>, <<1, 4>>}
\* curve.discount(date)
Discount(c, t) == RPow(c, t)

None == <<>>
\* Python truth value of a spread: None and zero are false.
Truthy(v) == v # None /\ v[1] # 0

InputKeys == {"pricing_date", "eur_fcst_curve", "usd_fcst_curve", "tenor_years", "spread_eur"}

\* ql.MakeSchedule(pricing_date, pricing_date + tenor_years, 1Y)
MakeSchedule(pricing_date, tenor_years) ==
  [k \in 1..(tenor_years + 1) |-> pricing_date + k - 1]

\* ql.OvernightLeg([1], schedule, index, SimpleDayCounter, Following, [1], [spread], True):
\* one coupon per period, paying the compounded forecast rate plus the spread.
OvernightLeg(schedule, fcst, spread) ==
  [k \in 1..(Len(schedule) - 1) |->
     [date |-> schedule[k + 1],
      amount |-> RAdd(RSub(RDiv(Discount(fcst, schedule[k]), Discount(fcst, schedule[k + 1])), One),
                      spread)]]

SeqMax(s) == CHOOSE m \in {s[i] : i \in 1..Len(s)} : \A i \in 1..Len(s) : s[i] <= m

\* xccy_swap.build_swap
build_swap(self, spread_eur, eur_fcst_curve, usd_fcst_curve) ==
  [self EXCEPT
     !.built = TRUE,
     !.eur_leg = OvernightLeg(self.schedule, eur_fcst_curve, spread_eur),
     !.usd_leg = OvernightLeg(self.schedule, usd_fcst_curve, Zero),
     !.eur_notional = <<[date |-> SeqMax(self.schedule), amount |-> One]>>,
     !.usd_notional = <<[date |-> SeqMax(self.schedule), amount |-> One]>>]

\* xccy_swap.__init__
xccy_swap(pricing_date, eur_fcst_curve, usd_fcst_curve, tenor_years, spread_eur) ==
  LET self == [inputs |-> [pricing_date |-> pricing_date, eur_fcst_curve |-> eur_fcst_curve,
                           usd_fcst_curve |-> usd_fcst_curve, tenor_years |-> tenor_years,
                           spread_eur |-> spread_eur],
               pricing_date |-> pricing_date,
               schedule |-> MakeSchedule(pricing_date, tenor_years),
               built |-> FALSE,
               eur_leg |-> <<>>, usd_leg |-> <<>>, eur_notional |-> <<>>, usd_notional |-> <<>>]
  IN  IF Truthy(spread_eur)
        THEN build_swap(self, spread_eur, eur_fcst_curve, usd_fcst_curve)
        ELSE self

\* ql.CashFlows.npv(leg, curve, True, pricing_date)
CashFlowsNpv(leg, curve, pricing_date) ==
  RSum([k \in 1..Len(leg) |-> RMul(leg[k].amount, Discount(curve, leg[k].date - pricing_date))])

\* xccy_swap.npv: the legs exist only on a swap that build_swap has built.
npv(self, eur_discount_curve, usd_discount_curve) ==
  IF ~self.built
    THEN [ok |-> FALSE, err |-> "AttributeError", val |-> Zero]
    ELSE [ok |-> TRUE, err |-> "none",
          val |-> RSub(RAdd(CashFlowsNpv(self.eur_leg, eur_discount_curve, self.pricing_date),
                            CashFlowsNpv(self.eur_notional, eur_discount_curve, self.pricing_date)),
                       RAdd(CashFlowsNpv(self.usd_leg, usd_discount_curve, self.pricing_date),
                            CashFlowsNpv(self.usd_notional, usd_discount_curve, self.pricing_date)))]

\* dict.pop(key)
Pop(d, key) == [k \in (DOMAIN d) \ {key} |-> d[k]]

\* The function handed to the root-finder:
\* lambda spread: xccy_swap(**inputs, spread_eur=spread).npv(eur, usd)
Objective(inputs, spread, eur_discount_curve, usd_discount_curve) ==
  npv(xccy_swap(inputs.pricing_date, inputs.eur_fcst_curve, inputs.usd_fcst_curve,
                inputs.tenor_years, spread),
      eur_discount_curve, usd_discount_curve)

\* root_scalar(f, x0 = -0.1, x1 = 0.1): the secant iteration.  An exception
\* raised by f ends the search and propagates.
x0 == <<-1, 10>>
x1 == <<1, 10>>
SecantStep(p0, q0, p1, q1) ==
  IF RLess(RAbs(q0), RAbs(q1))
    THEN RDiv(RAdd(RMul(RNeg(RDiv(q0, q1)), p1), p0), RSub(One, RDiv(q0, q1)))
    ELSE RDiv(RAdd(RMul(RNeg(RDiv(q1, q0)), p0), p1), RSub(One, RDiv(q1, q0)))
RECURSIVE Secant(_, _, _, _, _, _, _, _, _)
Secant(inputs, e, u, p0, q0, p1, q1, itr, trials) ==
  IF itr > MaxSecantIter
    THEN [ok |-> FALSE, err |-> "RuntimeError", root |-> Zero, trials |-> trials]
  ELSE IF q1 = q0
    THEN [ok |-> TRUE, err |-> "none", root |-> RDiv(RAdd(p1, p0), <<2, 1>>), trials |-> trials]
  ELSE LET p == SecantStep(p0, q0, p1, q1) IN
    IF p = p1
      THEN [ok |-> TRUE, err |-> "none", root |-> p, trials |-> trials]
      ELSE LET q == Objective(inputs, p, e, u) IN
        IF ~q.ok
          THEN [ok |-> FALSE, err |-> q.err, root |-> Zero, trials |-> Append(trials, p)]
          ELSE Secant(inputs, e, u, p1, q1, p, q.val, itr + 1, Append(trials, p))
root_scalar(inputs, e, u) ==
  LET f0 == Objective(inputs, x0, e, u)
      f1 == Objective(inputs, x1, e, u)
  IN  IF ~f0.ok THEN [ok |-> FALSE, err |-> f0.err, root |-> Zero, trials |-> <<x0>>]
      ELSE IF ~f1.ok THEN [ok |-> FALSE, err |-> f1.err, root |-> Zero, trials |-> <<x0, x1>>]
      ELSE IF RLess(RAbs(f1.val), RAbs(f0.val))
        THEN Secant(inputs, e, u, x1, f1.val, x0, f0.val, 1, <<x0, x1>>)
        ELSE Secant(inputs, e, u, x0, f0.val, x1, f1.val, 1, <<x0, x1>>)

\* xccy_swap.fair_spread: 'inputs' is the object's own dictionary, not a
\* copy, so the pop removes the key from self.inputs.
fair_spread(self, eur_discount_curve, usd_discount_curve) ==
  IF "spread_eur" \notin DOMAIN self.inputs
    THEN [self |-> self, ok |-> FALSE, err |-> "KeyError", root |-> Zero, trials |-> <<>>,
          rootfinds |-> 0]
    ELSE LET inputs == Pop(self.inputs, "spread_eur")
             r == root_scalar(inputs, eur_discount_curve, usd_discount_curve)
         IN  [self |-> [self EXCEPT !.inputs = inputs],
              ok |-> r.ok, err |-> r.err, root |-> r.root, trials |-> r.trials,
              rootfinds |-> 1]

XIdle ==
  /\ heap = <<>> /\ calls = <<>> /\ curves = <<>> /\ di = 0
  /\ spreads = <<>> /\ table = <<>> /\ dstatus = "idle"

\* The record kept of one call of a method of an xccy_swap.
FairSpreadCall(obj, tenor, r) ==
  [op |-> "fair_spread", obj |-> obj, tenor |-> tenor, ok |-> r.ok, err |-> r.err,
   val |-> r.root, trials |-> r.trials, rootfinds |-> r.rootfinds, inputs |-> r.self.inputs]
NpvCall(obj, tenor, r, self) ==
  [op |-> "npv", obj |-> obj, tenor |-> tenor, ok |-> r.ok, err |-> r.err,
   val |-> r.val, trials |-> <<>>, rootfinds |-> 0, inputs |-> self.inputs]

----
\* The cell 'iterate over all xccy maturities and find xccy spreads' (XSpec).
\* maturities_xccy = ['2Y', '5Y', '10Y', '15Y', '20Y', '30Y'], as Period lengths;
\* the model runs the loop over the maturities of at most MaxTenor years.
maturities_xccy == <<2, 5, 10, 15, 20, 30>>
Maturities == SelectSeq(maturities_xccy, LAMBDA m : m <= MaxTenor)
date == 0

\* Mutant: the loop appends every spread twice.
AppendSpreadTwice(l, r) == l \o <<r.root, r.root>>

\* xccy_spreads_eur.append(<fair spread>)
AppendSpread(l, r) == Append(l, r.root)

\* the three flat curves of cell 3; usd_rate_mod is a rate other than usd_rate
DInit ==
  /\ curves \in {c \in [eur_curve : Curves, usd_curve : Curves, usd_curve_mod : Curves] :
                    c.usd_curve_mod # c.usd_curve}
  /\ heap = <<>> /\ calls = <<>>
  /\ di = 1 /\ spreads = <<>> /\ table = <<>> /\ dstatus = "loop"

\* one pass of the for loop: construct the swap, find its fair spread, append
DriverIterate ==
  /\ dstatus = "loop" /\ di <= Len(Maturities)
  /\ \E tenor_years \in {Maturities[di]} :
     \E swap \in {xccy_swap(date, curves.eur_curve, curves.usd_curve, tenor_years, None)} :
     \E r \in {fair_spread(swap, curves.eur_curve, curves.usd_curve_mod)} :
         /\ heap' = Append(heap, r.self)
         /\ calls' = Append(calls, FairSpreadCall(Len(heap) + 1, tenor_years, r))
         /\ IF r.ok
              THEN /\ spreads' = AppendSpread(spreads, r)
                   /\ di' = di + 1
                   /\ dstatus' = "loop"
              ELSE /\ dstatus' = "halted"
                   /\ UNCHANGED <<spreads, di>>
  /\ UNCHANGED <<curves, table, nonX>>

\* pd.DataFrame({'expiry': maturities_xccy, 'EUR_spread': xccy_spreads_eur})
DriverTable ==
  /\ dstatus = "loop" /\ di > Len(Maturities)
  /\ IF Len(spreads) = Len(Maturities)
       THEN /\ table' = [i \in 1..Len(Maturities) |->
                           [expiry |-> Maturities[i], EUR_spread |-> spreads[i]]]
            /\ dstatus' = "done"
       ELSE /\ dstatus' = "halted"
            /\ UNCHANGED table
  /\ UNCHANGED <<heap, calls, curves, di, spreads, nonX>>


----
\* Free use of one xccy_swap object with one pair of discount curves (ASpec).
SpreadArgs == {None, Zero, x1}

AInit ==
  /\ curves \in [eur_discount_curve : Curves, usd_discount_curve : Curves]
  /\ heap = <<>> /\ calls = <<>>
  /\ di = 0 /\ spreads = <<>> /\ table = <<>> /\ dstatus = "idle"

\* swap = xccy_swap(date, eur_fcst_curve, usd_fcst_curve, tenor_years[, spread_eur])
NewSwap ==
  /\ heap = <<>>
  /\ \E tenor_years \in 1..MaxTenor, ef \in Curves, uf \in Curves, sp \in SpreadArgs :
       heap' = <<xccy_swap(date, ef, uf, tenor_years, sp)>>
  /\ UNCHANGED <<calls, curves, di, spreads, table, dstatus, nonX>>

\* swap.fair_spread(eur_discount_curve, usd_discount_curve)
CallFairSpread ==
  /\ heap # <<>> /\ Len(calls) < MaxCalls
  /\ \E r \in {fair_spread(heap[1], curves.eur_discount_curve, curves.usd_discount_curve)} :
       /\ heap' = <<r.self>>
       /\ calls' = Append(calls, FairSpreadCall(1, heap[1].inputs.tenor_years, r))
  /\ UNCHANGED <<curves, di, spreads, table, dstatus, nonX>>

\* swap.npv(eur_discount_curve, usd_discount_curve)
CallNpv ==
  /\ heap # <<>> /\ Len(calls) < MaxCalls
  /\ \E r \in {npv(heap[1], curves.eur_discount_curve, curves.usd_discount_curve)} :
       calls' = Append(calls, NpvCall(1, heap[1].inputs.tenor_years, r, heap[1]))
  /\ UNCHANGED <<heap, curves, di, spreads, table, dstatus, nonX>>

ANext == NewSwap \/ CallFairSpread \/ CallNpv

----
(***************************************************************************)
(* Part III: cells 3 to 5 of forward_curves.ipynb (FSpec).  Rates are in   *)
(* units of 5e-7 (0.0313242 is 2 * 31324), so that the mean of two loaded  *)
(* rates is a whole number; the first row of the sheet has no rate (NaN).  *)
(* Dates are days after 2019-11-01.                                        *)
(***************************************************************************)
NaN == -1
Rates == {2 * 24858, 2 * 27741, 2 * 31324}
\* the 'date' column: 2019-11-01, 2020-02-01, 2020-05-01, 2020-08-01, 2020-11-01
SheetDates == <<0, 92, 182, 274, 366>>
\* ql.Date(1, 1, 2022), assigned to the evaluation date by cell 2
Date_2022_01_01 == 792
\* Evaluation dates under which cells 3 to 5 are run: the one cell 2 assigns,
\* the first and last dates of the sheet, and a date inside the sheet's range.
EvaluationDates == {Date_2022_01_01, 0, 100, 366}

FIdle ==
  /\ fstep = "idle" /\ data = <<>> /\ loaded = <<>> /\ end_dates = <<>>
  /\ fwd_rates = <<>> /\ fwd_curve = <<>> /\ sample_fwds = <<>> /\ evaluationDate = 0

\* Mutant: the assignment overwrites the second rate with the first.
FirstFromSecondReversed(l) == [l EXCEPT ![2] = l[1]]

\* fwd_rates[0] = fwd_rates[1]
FirstFromSecond(l) == [l EXCEPT ![1] = l[2]]

\* Series.to_list(): a new list with the values of the column
to_list(col) == [i \in 1..Len(col) |-> col[i]]

\* Mutant: the curve starts at the evaluation date, as a FlatForward built
\* with settlement days does.
ForwardCurveFromEvaluationDate(dates, rates) ==
  [dates |-> dates, rates |-> rates, reference |-> evaluationDate]

\* ql.ForwardCurve(dates, rates, dayCounter, calendar): backward-flat forwards,
\* the curve starts at the first date
ForwardCurve(dates, rates) == [dates |-> dates, rates |-> rates, reference |-> dates[1]]

\* Times are in 1/1000 day.  Actual360 time from the curve's reference date.
timeFromReference(c, d) == 1000 * (d - c.reference)
\* The window over which forwardRate(d, d) measures the forward: 0.0001 year
\* of 360 days.
dT == 36

Min2(a, b) == IF a < b THEN a ELSE b
Max2(a, b) == IF a > b THEN a ELSE b
\* Length of the part of (a, b) that lies in (lo, hi).
Overlap(lo, hi, a, b) == Max2(0, Min2(hi, b) - Max2(lo, a))

RECURSIVE SumTo(_, _)
SumTo(f, n) == IF n < 2 THEN 0 ELSE f[n] + SumTo(f, n - 1)

\* Integral of the forward rate over (t1, t2): rates[i] applies on
\* (dates[i-1], dates[i]], the last rate beyond the last date.
ForwardIntegral(c, t1, t2) ==
  LET n == Len(c.dates)
      node(i) == timeFromReference(c, c.dates[i])
      part == [i \in 2..n |-> Overlap(node(i - 1), node(i), t1, t2) * c.rates[i]]
  IN  SumTo(part, n) + Max2(0, t2 - Max2(node(n), t1)) * c.rates[n]

\* Mutant: the forward at d is the interpolated value at d, which at the
\* first date is the first rate.
forwardRateInterpolated(c, d) ==
  IF d <= c.dates[1] THEN c.rates[1]
  ELSE c.rates[CHOOSE i \in 2..Len(c.dates) : c.dates[i - 1] < d /\ d <= c.dates[i]]

\* fwd_curve.forwardRate(d, d, Actual360, Continuous).rate(): the continuously
\* compounded rate over the window of length dT centred at d (starting at d
\* when d is the reference date), i.e. the mean forward over the window.
forwardRate(c, d) ==
  LET t1 == Max2(timeFromReference(c, d) - dT \div 2, 0)
      t2 == t1 + dT
  IN  ForwardIntegral(c, t1, t2) \div dT

FInit ==
  /\ fstep = "read_excel" /\ data = <<>> /\ loaded = <<>> /\ end_dates = <<>>
  /\ fwd_rates = <<>> /\ fwd_curve = <<>> /\ sample_fwds = <<>>
  /\ evaluationDate \in EvaluationDates

\* data = pd.read_excel('data/fwd_curves.xlsx', skiprows = 6)
ReadExcel ==
  /\ fstep = "read_excel"
  /\ \E r \in [2..Len(SheetDates) -> Rates] :
       LET sheet == [date |-> SheetDates,
                     fwd_cont |-> [i \in 1..Len(SheetDates) |-> IF i = 1 THEN NaN ELSE r[i]]]
       IN  data' = sheet /\ loaded' = sheet
  /\ fstep' = "to_list"
  /\ UNCHANGED <<end_dates, fwd_rates, fwd_curve, sample_fwds, evaluationDate, nonF>>

\* end_dates = data['date']....to_list(); fwd_rates = data['fwd_cont'].to_list()
ToLists ==
  /\ fstep = "to_list"
  /\ end_dates' = to_list(data.date)
  /\ fwd_rates' = to_list(data.fwd_cont)
  /\ fstep' = "set_first"
  /\ UNCHANGED <<data, loaded, fwd_curve, sample_fwds, evaluationDate, nonF>>

\* fwd_rates[0] = fwd_rates[1]
SetFirst ==
  /\ fstep = "set_first"
  /\ fwd_rates' = FirstFromSecond(fwd_rates)
  /\ fstep' = "build"
  /\ UNCHANGED <<data, loaded, end_dates, fwd_curve, sample_fwds, evaluationDate, nonF>>

\* fwd_curve = ql.ForwardCurve(end_dates, fwd_rates, ql.Actual360(), ql.NullCalendar())
BuildCurve ==
  /\ fstep = "build"
  /\ fwd_curve' = ForwardCurve(end_dates, fwd_rates)
  /\ fstep' = "sample"
  /\ UNCHANGED <<data, loaded, end_dates, fwd_rates, sample_fwds, evaluationDate, nonF>>

\* sample_dates = every day from end_dates[0] up to, not including, end_dates[-1];
\* sample_fwds = the instantaneous forward at each of them
Sample ==
  /\ fstep = "sample"
  /\ sample_fwds' = [d \in end_dates[1]..(end_dates[Len(end_dates)] - 1) |-> forwardRate(fwd_curve, d)]
  /\ fstep' = "done"
  /\ UNCHANGED <<data, loaded, end_dates, fwd_rates, fwd_curve, evaluationDate, nonF>>

FNext == ReadExcel \/ ToLists \/ SetFirst \/ BuildCurve \/ Sample

----
(***************************************************************************)
(* Part IV: the cell 'build FX forward quotes' of build_fx_quotes.ipynb    *)
(* (QSpec).  Dates are <<year, month, day>>.                               *)
(***************************************************************************)
QIdle ==
  /\ qi = 0 /\ quotes_fx = <<>> /\ fx_table = <<>> /\ fx_curves = <<>> /\ qstatus = "idle"

\* date = ql.Date(18,8,2022), also the evaluation date
date_ymd == <<2022, 8, 18>>
spot_fx == <<6, 5>>
expiries_fwd == <<"1W", "1M", "3M", "6M", "9M", "12M">>

\* ql.Period(expiry)
Period(p) ==
  CASE p = "1W"  -> [length |-> 1, units |-> "Weeks"]
    [] p = "1M"  -> [length |-> 1, units |-> "Months"]
    [] p = "3M"  -> [length |-> 3, units |-> "Months"]
    [] p = "6M"  -> [length |-> 6, units |-> "Months"]
    [] p = "9M"  -> [length |-> 9, units |-> "Months"]
    [] p = "12M" -> [length |-> 12, units |-> "Months"]

IsLeap(y) == (y % 4 = 0 /\ y % 100 # 0) \/ y % 400 = 0
MonthLength(y, m) ==
  IF m = 2 THEN (IF IsLeap(y) THEN 29 ELSE 28)
  ELSE IF m \in {4, 6, 9, 11} THEN 30 ELSE 31

RECURSIVE AddDays(_, _)
AddDays(d, n) ==
  IF n = 0 THEN d
  ELSE IF d[3] < MonthLength(d[1], d[2]) THEN AddDays(<<d[1], d[2], d[3] + 1>>, n - 1)
  ELSE IF d[2] < 12 THEN AddDays(<<d[1], d[2] + 1, 1>>, n - 1)
  ELSE AddDays(<<d[1] + 1, 1, 1>>, n - 1)

AddMonths(d, n) ==
  LET k == (d[2] - 1) + n
      y == d[1] + (k \div 12)
      m == (k % 12) + 1
      l == MonthLength(y, m)
  IN  <<y, m, IF d[3] > l THEN l ELSE d[3]>>

\* ql.NullCalendar().advance(d, period): every day is a business day
advance(d, period) ==
  IF period.units = "Weeks" THEN AddDays(d, 7 * period.length)
  ELSE AddMonths(d, period.length)

fwd_maturities == [i \in 1..Len(expiries_fwd) |-> advance(date_ymd, Period(expiries_fwd[i]))]

\* Discount factors a curve can have at the six maturities, nearest first.
DFValues == <<<<99, 100>>, <<49, 50>>, <<19, 20>>, <<9, 10>>, <<4, 5>>, <<3, 4>>, <<1, 2>>>>
DFTables ==
  {[i \in 1..Len(expiries_fwd) |-> DFValues[IF i < k THEN i ELSE i + 1]] : k \in 1..Len(DFValues)}

\* curve.discount(d)
discount(curve, d) == curve[CHOOSE i \in 1..Len(fwd_maturities) : fwd_maturities[i] = d]

\* Mutant: the forward is built from the unmodified USD curve.
FxForwardUnmodified(c, fwd_maturity) ==
  RDiv(RMul(spot_fx, discount(c.eur_curve, fwd_maturity)), discount(c.usd_curve, fwd_maturity))

\* spot_fx * eur_curve.discount(fwd_maturity)/usd_curve_mod.discount(fwd_maturity)
FxForward(c, fwd_maturity) ==
  RDiv(RMul(spot_fx, discount(c.eur_curve, fwd_maturity)), discount(c.usd_curve_mod, fwd_maturity))

QInit ==
  /\ fx_curves \in [eur_curve : DFTables, usd_curve : DFTables, usd_curve_mod : DFTables]
  /\ qi = 1 /\ quotes_fx = <<>> /\ fx_table = <<>> /\ qstatus = "loop"

\* one pass of the for loop over expiries_fwd
QuoteForward ==
  /\ qstatus = "loop" /\ qi <= Len(expiries_fwd)
  /\ \E fwd_maturity \in {advance(date_ymd, Period(expiries_fwd[qi]))} :
       quotes_fx' = Append(quotes_fx, FxForward(fx_curves, fwd_maturity))
  /\ qi' = qi + 1
  /\ UNCHANGED <<fx_table, fx_curves, qstatus, nonQ>>

\* quotes_fx = pd.DataFrame({'expiry': expiries_fwd, 'fx_fwd': quotes_fx})
QuoteTable ==
  /\ qstatus = "loop" /\ qi > Len(expiries_fwd)
  /\ fx_table' = [i \in 1..Len(expiries_fwd) |->
                    [expiry |-> expiries_fwd[i], fx_fwd |-> quotes_fx[i]]]
  /\ qstatus' = "done"
  /\ UNCHANGED <<qi, quotes_fx, fx_curves, nonQ>>

QNext == QuoteForward \/ QuoteTable

----
(***************************************************************************)
(* Real arithmetic.  The notebooks compute in floating point; the model    *)
(* computes in fixed point with eight decimals (1.0 is FxOne), which fits  *)
(* the 32-bit integers: magnitudes stay below 20 and saturate at FxMax.    *)
(* np.exp, np.log, np.sqrt, norm.pdf and norm.cdf are computed from their  *)
(* series to about seven decimals.                                         *)
(***************************************************************************)
FxOne == 100000000
FxBase == 10000
FxMax == 2000000000
FxAbs(x) == IF x < 0 THEN 0 - x ELSE x
FxSign(x) == IF x < 0 THEN 0 - 1 ELSE 1
Fx(n, d) == (n * (FxOne \div d))

\* The product of two magnitudes, rounded; FxMax when it does not fit.
FxMulAbs(x, y) ==
  LET xh == x \div FxBase
      xl == x % FxBase
      yh == y \div FxBase
      yl == y % FxBase
      m1 == xh * yl
      m2 == xl * yh
  IN  IF yh > 0 /\ xh > FxMax \div yh THEN FxMax
      ELSE xh * yh + m1 \div FxBase + m2 \div FxBase
           + ((m1 % FxBase) + (m2 % FxBase) + (xl * yl) \div FxBase + FxBase \div 2) \div FxBase

\* a / n for a whole number n > 0, rounded.
FxDivInt(a, n) == FxSign(a) * ((FxAbs(a) + n \div 2) \div n)

FxMul(a, b) == FxSign(a) * FxSign(b) * FxMulAbs(FxAbs(a), FxAbs(b))

\* Long division: k more decimal digits of r / b appended to acc.
RECURSIVE FxDivDigits(_, _, _, _)
FxDivDigits(r, b, k, acc) ==
  IF k = 0 \/ acc >= FxMax THEN acc
  ELSE FxDivDigits((r * 10) % b, b, k - 1, acc * 10 + (r * 10) \div b)

\* The quotient of two magnitudes (y > 0); FxMax when it does not fit.
FxDivAbs(x, y) ==
  IF y > 200000000
  THEN IF x \div (y \div 10) >= 200 THEN FxMax
       ELSE LET q == FxDivDigits(x % (y \div 10), y \div 10, 7, x \div (y \div 10))
                d == y % 10
            IN  IF d = 0 THEN q ELSE q - q \div ((y - d) \div d)
  ELSE IF x \div y >= 20 THEN FxMax
  ELSE FxDivDigits(x % y, y, 8, x \div y)

FxDiv(a, b) == FxSign(a) * FxSign(b) * FxDivAbs(FxAbs(a), FxAbs(b))

\* exp: x = k ln 2 + r with |r| <= (ln 2)/2; exp(r) by its Taylor series,
\* scaled by 2^k.
FxLn2 == 69314718
RECURSIVE FxExpSeries(_, _, _, _)
FxExpSeries(f, term, sum, n) ==
  IF term = 0 \/ n > 14 \/ sum >= FxMax THEN sum
  ELSE FxExpSeries(f, FxDivInt(FxMul(term, f), n), sum + term, n + 1)

RECURSIVE FxScale2(_, _)
FxScale2(m, k) ==
  IF k = 0 THEN m
  ELSE IF k > 0 THEN (IF m >= FxMax \div 2 THEN FxMax ELSE FxScale2(2 * m, k - 1))
  ELSE FxScale2(FxDivInt(m, 2), k + 1)

FxExp(x) ==
  LET k == (x + FxLn2 \div 2) \div FxLn2
  IN  IF x <= 0 - FxMax THEN 0
      ELSE IF x >= 3 * FxOne THEN FxMax
      ELSE FxScale2(FxExpSeries(x - k * FxLn2, FxOne, 0, 1), k)

\* log: x is scaled by powers of two into [3/4, 3/2), the logarithm of the
\* scaled value is 2 atanh((m - 1)/(m + 1)).
RECURSIVE FxAtanhSeries(_, _, _, _)
FxAtanhSeries(z2, term, sum, n) ==
  IF term = 0 \/ n > 25 \/ sum >= FxMax THEN sum
  ELSE FxAtanhSeries(z2, FxMul(term, z2), sum + FxDivInt(term, n), n + 2)

RECURSIVE FxLnScaled(_, _)
FxLnScaled(m, k) ==
  IF m < 75000000 THEN FxLnScaled(2 * m, k - 1)
  ELSE IF m >= 150000000 THEN FxLnScaled(m \div 2, k + 1)
  ELSE LET z == FxDiv(m - FxOne, m + FxOne)
       IN  2 * FxAtanhSeries(FxMul(z, z), z, 0, 1) + k * FxLn2

FxLn(x) == FxLnScaled(x, 0)

\* sqrt by Newton's iteration.
RECURSIVE FxSqrtIter(_, _, _)
FxSqrtIter(x, y, n) ==
  IF n = 0 \/ y <= 0 THEN y
  ELSE FxSqrtIter(x, FxDivInt(y + FxDiv(x, y), 2), n - 1)

RECURSIVE FxSqrtGuess(_, _)
FxSqrtGuess(x, g) == IF FxMul(g, g) >= x \/ g >= 4 * FxOne THEN g ELSE FxSqrtGuess(x, 2 * g)

FxSqrt(x) == IF x <= 0 THEN 0 ELSE FxSqrtIter(x, FxSqrtGuess(x, 1000), 6)

\* The standard normal density and distribution function.
FxInvSqrt2Pi == 39894228
FxPdf(x) == IF FxAbs(x) >= 6 * FxOne THEN 0
            ELSE FxMul(FxInvSqrt2Pi, FxExp(0 - FxMul(FxDivInt(x, 2), x)))

\* x + x^3/3 + x^5/(3*5) + ...  (x >= 0)
RECURSIVE FxCdfSeries(_, _, _, _)
FxCdfSeries(x2, term, sum, n) ==
  IF term = 0 \/ n > 80 \/ sum >= FxMax THEN sum
  ELSE FxCdfSeries(x2, FxDivInt(FxMul(term, x2), n + 2), sum + term, n + 2)

\* x + 1/(x + 2/(x + 3/(x + ...)))  (x >= 2)
RECURSIVE FxMillsFraction(_, _, _)
FxMillsFraction(x, k, t) ==
  IF k = 0 \/ t <= 0 THEN t
  ELSE FxMillsFraction(x, k - 1, x + k * FxDiv(FxOne, t))

\* 1 - Phi(x) for x >= 0
FxUpperTail(x) ==
  IF x >= 6 * FxOne THEN 0
  ELSE IF x >= 2 * FxOne THEN FxDiv(FxPdf(x), FxMillsFraction(x, 40, x + 6 * FxOne))
  ELSE FxOne \div 2 - FxMul(FxPdf(x), FxCdfSeries(FxMul(x, x), x, 0, 1))

FxCdf(x) == IF x >= 0 THEN FxOne - FxUpperTail(x) ELSE FxUpperTail(0 - x)

----
(***************************************************************************)
(* Part V: the inflation index I of inflation_curves.md (ISpec).  Index    *)
(* values are exact rationals in units of 0.01; dates are                  *)
(* <<year, month, day>>.                                                   *)
(***************************************************************************)
IIdle ==
  /\ istep = "idle" /\ i_date = <<0, 0, 0>> /\ lag = 0 /\ I = <<>>

\* The lag is typically 3 months (US, EU market), or 2 months (UK).
Lags == {2, 3}

\* The dates of 2004.
IndexDates == {<<2004, m, d>> : m \in 1..12, d \in 1..31} \ {ymd \in {<<2004, m, d>> : m \in 1..12, d \in 1..31} : ymd[3] > MonthLength(ymd[1], ymd[2])}

\* CPI(yyyy-mm): the two values of the example, CPI(2004-02) = 186.20 and
\* CPI(2004-03) = 187.40, continued to the other months with the same
\* monthly step.
CPI(y, m) == <<18620 + 120 * ((12 * y + m) - (12 * 2004 + 2)), 1>>

\* Mutant: the month is shifted within its calendar year.
MonthShiftSameYear(y, m, k) == <<y, ((m - 1 + k) % 12) + 1>>

\* The month k months after yyyy-mm (k may be negative).
MonthShift(y, m, k) ==
  LET idx == 12 * y + (m - 1) + k
  IN  <<idx \div 12, (idx % 12) + 1>>

\* I(yyyy-mm-01) <- CPI(yyyy-(mm-lag)), I(yyyy-(mm+1)-01) <- CPI(yyyy-(mm-lag+1))
EdgeValues(ymd, l) ==
  LET here == MonthShift(ymd[1], ymd[2], 0)
      next == MonthShift(ymd[1], ymd[2], 1)
      c0   == MonthShift(ymd[1], ymd[2], 0 - l)
      c1   == MonthShift(ymd[1], ymd[2], 1 - l)
  IN  (<<here[1], here[2], 1>> :> CPI(c0[1], c0[2])) @@
      (<<next[1], next[2], 1>> :> CPI(c1[1], c1[2]))

\* The date T of the payoff of a ZCIS of a term of whole years observed at
\* t = 0 = yyyy-mm-dd.
ZcisMaturity(ymd, term) ==
  LET l == MonthLength(ymd[1] + term, ymd[2])
  IN  <<ymd[1] + term, ymd[2], IF ymd[3] > l THEN l ELSE ymd[3]>>

\* The value interpolated at yyyy-mm-dd between the two edge values.
Interpolated(ymd, idx) ==
  LET next == MonthShift(ymd[1], ymd[2], 1)
      lo   == idx[<<ymd[1], ymd[2], 1>>]
      hi   == idx[<<next[1], next[2], 1>>]
  IN  RAdd(lo, RMul(Norm(ymd[3] - 1, MonthLength(ymd[1], ymd[2])), RSub(hi, lo)))

\* The value the example gives for I(2004-05-12):
\* 186.20+(5-1)/31*(187.40-186.20).
ExampleValue ==
  RAdd(<<18620, 1>>, RMul(Norm(5 - 1, 31), RSub(<<18740, 1>>, <<18620, 1>>)))

IInit ==
  /\ istep = "edges"
  /\ i_date \in IndexDates
  /\ lag \in Lags
  /\ I = <<>>

AssignEdges ==
  /\ istep = "edges"
  /\ I' = EdgeValues(i_date, lag)
  /\ istep' = "interpolate"
  /\ UNCHANGED <<i_date, lag, nonI>>

Interpolate ==
  /\ istep = "interpolate"
  /\ I' = [d \in DOMAIN I \cup {i_date} |->
             IF d = i_date THEN Interpolated(i_date, I) ELSE I[d]]
  /\ istep' = "done"
  /\ UNCHANGED <<i_date, lag, nonI>>

INext == AssignEdges \/ Interpolate

----
(***************************************************************************)
(* Part VI: the cell of CMS.ipynb that computes the CMS rate by hand       *)
(* (CSpec).  The schedule of the underlying swap is annual from T0 to TN   *)
(* (holiday adjustments of the dates are left out); the forward swap rate  *)
(* S is the value of swp.fairRate().                                       *)
(***************************************************************************)
CIdle ==
  /\ cstep = "idle" /\ cms_in = None
  /\ annuity = None /\ gamma = None /\ a_Tp = None /\ var = None
  /\ cms_rate = None /\ cms_out = None

today == <<2022, 10, 20>>

\* Days from 2000-01-01 to the date.
RECURSIVE DaysBeforeMonth(_, _)
DaysBeforeMonth(y, m) == IF m = 1 THEN 0 ELSE MonthLength(y, m - 1) + DaysBeforeMonth(y, m - 1)
DayNumber(ymd) ==
  365 * (ymd[1] - 2000) + (ymd[1] - 2000 + 3) \div 4 + DaysBeforeMonth(ymd[1], ymd[2]) + (ymd[3] - 1)

\* ql.Actual360().yearFraction and ql.Thirty360(0).yearFraction
Actual360(d1, d2) == FxDiv((DayNumber(d2) - DayNumber(d1)) * 100000, 36000000)
Thirty360(d1, d2) ==
  LET dd1 == IF d1[3] = 31 THEN 30 ELSE d1[3]
      dd2 == IF d2[3] = 31 /\ dd1 = 30 THEN 30 ELSE d2[3]
  IN  FxDiv((360 * (d2[1] - d1[1]) + 30 * (d2[2] - d1[2]) + (dd2 - dd1)) * 100000, 36000000)
yearfrac(date1, date2) == Thirty360(date1, date2)

\* discount_curve: FlatForward at 0.02, Actual360, from today.
DiscountRate == 2000000
B(T) == FxExp(0 - FxMul(DiscountRate, Actual360(today, T)))

Tp_period == 3
swap_tenor == 5
T0(in) == AddMonths(today, 12 * in.T0_period)
Tp == AddMonths(today, 12 * Tp_period)
TN(in) == AddMonths(T0(in), 12 * swap_tenor)
fixedSchedule(in) == [i \in 1..(swap_tenor + 1) |-> AddMonths(T0(in), 12 * (i - 1))]

\* G = lambda tau, kappa: (1-np.exp(-kappa*tau))/kappa if kappa>0 else tau
G(tau, kappa) ==
  IF kappa > 0 THEN FxDiv(FxOne - FxExp(0 - FxMul(kappa, tau)), kappa) ELSE tau

\* The values the cell can read.
Sigmas == {0, 60000, 6000000, 60000000}
Shifts == {0, 2000000}
Kappas == {0, 5000000, 10000000}
SwapRates == {1000000, 3082202}
T0_periods == {0, 1, 2}

CInit ==
  /\ cstep = "annuity"
  /\ cms_in \in [S : SwapRates, sigma : Sigmas, shift : Shifts, kappa : Kappas, T0_period : T0_periods]
  /\ annuity = None /\ gamma = None /\ a_Tp = None /\ var = None
  /\ cms_rate = None /\ cms_out = None

Annuity(in) ==
  LET sch == fixedSchedule(in)
  IN  SumTo([idx \in 2..Len(sch) |-> FxMul(yearfrac(sch[idx - 1], sch[idx]), B(sch[idx]))], Len(sch))

Gamma(in, A) ==
  LET sch == fixedSchedule(in)
  IN  FxDiv(SumTo([idx \in 2..Len(sch) |->
                     FxMul(FxMul(yearfrac(sch[idx - 1], sch[idx]), B(sch[idx])),
                           G(yearfrac(T0(in), sch[idx]), in.kappa))], Len(sch)), A)

ACoefficient(in, A, gam) ==
  FxDiv(FxMul(B(Tp), gam - G(yearfrac(T0(in), Tp), in.kappa)),
        FxMul(B(TN(in)), G(yearfrac(T0(in), TN(in)), in.kappa)) + FxMul(FxMul(A, in.S), gam))

\* Mutant: the variance of the normal model, sigma**2 * yearfrac(today,T0).
VarianceNormal(in) ==
  FxMul(FxMul(in.sigma, in.sigma), yearfrac(today, T0(in)))

\* Mutant: the exponential without the - 1.
VarianceOfExp(in) ==
  FxMul(FxMul(in.S + in.shift, in.S + in.shift),
        FxExp(FxMul(FxMul(in.sigma, in.sigma), yearfrac(today, T0(in)))))

\* var = (S+shift)**2 * (np.exp(sigma**2* yearfrac(today,T0)) - 1)
Variance(in) ==
  FxMul(FxMul(in.S + in.shift, in.S + in.shift),
        FxExp(FxMul(FxMul(in.sigma, in.sigma), yearfrac(today, T0(in)))) - FxOne)

\* cms_rate = S + annuity/discount_curve.discount(Tp) * a * var
CmsRate(in, A, aTp, v) == in.S + FxMul(FxMul(FxDiv(A, B(Tp)), aTp), v)

ComputeAnnuity ==
  /\ cstep = "annuity"
  /\ annuity' = Annuity(cms_in)
  /\ cstep' = "gamma"
  /\ UNCHANGED <<cms_in, gamma, a_Tp, var, cms_rate, cms_out, nonC>>

ComputeGamma ==
  /\ cstep = "gamma"
  /\ gamma' = Gamma(cms_in, annuity)
  /\ cstep' = "a"
  /\ UNCHANGED <<cms_in, annuity, a_Tp, var, cms_rate, cms_out, nonC>>

ComputeA ==
  /\ cstep = "a"
  /\ a_Tp' = ACoefficient(cms_in, annuity, gamma)
  /\ cstep' = "var"
  /\ UNCHANGED <<cms_in, annuity, gamma, var, cms_rate, cms_out, nonC>>

ComputeVar ==
  /\ cstep = "var"
  /\ var' = Variance(cms_in)
  /\ cstep' = "cms_rate"
  /\ UNCHANGED <<cms_in, annuity, gamma, a_Tp, cms_rate, cms_out, nonC>>

ComputeCmsRate ==
  /\ cstep = "cms_rate"
  /\ cms_rate' = CmsRate(cms_in, annuity, a_Tp, var)
  /\ cstep' = "print"
  /\ UNCHANGED <<cms_in, annuity, gamma, a_Tp, var, cms_out, nonC>>

\* print(f'CMS rate R(0)={cms_rate}, which includes {cms_rate - S} convexity adjustment')
PrintCmsRate ==
  /\ cstep = "print"
  /\ cms_out' = <<cms_rate, cms_rate - cms_in.S>>
  /\ cstep' = "done"
  /\ UNCHANGED <<cms_in, annuity, gamma, a_Tp, var, cms_rate, nonC>>

CNext ==
  \/ ComputeAnnuity \/ ComputeGamma \/ ComputeA
  \/ ComputeVar \/ ComputeCmsRate \/ PrintCmsRate

----
(***************************************************************************)
(* Part VII: swaption_formula of Swaption.ipynb, called with the same      *)
(* S, K, A, expiry, payer_receiver, model and shift for a rising sequence  *)
(* of volatilities (WSpec).                                                *)
(***************************************************************************)
WIdle == sw_in = None /\ sw_i = 0 /\ sw_prices = <<>>

\* str.lower() of the strings passed.
Lower(str) ==
  CASE str = "Payer" -> "payer"
    [] str = "Receiver" -> "receiver"
    [] str = "Lognormal" -> "lognormal"
    [] str = "Normal" -> "normal"
    [] OTHER -> str

\* Mutant: d2 = d1 + sigma*np.sqrt(expiry).
swaption_formula_d2_above(S, K, A, expiry, sigma, payer_receiver, model, shift) ==
  LET w == IF Lower(payer_receiver) = "payer" THEN 1 ELSE 0 - 1
  IN  IF Lower(model) = "lognormal"
      THEN LET d1 == FxDiv(FxLn(FxDiv(S + shift, K + shift))
                           + FxMul(FxMul(FxOne \div 2, FxMul(sigma, sigma)), expiry),
                           FxMul(sigma, FxSqrt(expiry)))
               d2 == d1 + FxMul(sigma, FxSqrt(expiry))
           IN  FxMul(FxMul(w * (S + shift), FxCdf(w * d1))
                     - FxMul(w * (K + shift), FxCdf(w * d2)), A)
      ELSE IF Lower(model) = "normal"
      THEN LET d == FxDiv(S - K, FxMul(sigma, FxSqrt(expiry)))
           IN  FxMul(FxMul(FxMul(A, sigma), FxSqrt(expiry)),
                     FxPdf(d) + FxMul(w * d, FxCdf(w * d)))
      ELSE None

swaption_formula(S, K, A, expiry, sigma, payer_receiver, model, shift) ==
  LET w == IF Lower(payer_receiver) = "payer" THEN 1 ELSE 0 - 1
  IN  IF Lower(model) = "lognormal"
      THEN LET d1 == FxDiv(FxLn(FxDiv(S + shift, K + shift))
                           + FxMul(FxMul(FxOne \div 2, FxMul(sigma, sigma)), expiry),
                           FxMul(sigma, FxSqrt(expiry)))
               d2 == d1 - FxMul(sigma, FxSqrt(expiry))
           IN  FxMul(FxMul(w * (S + shift), FxCdf(w * d1))
                     - FxMul(w * (K + shift), FxCdf(w * d2)), A)
      ELSE IF Lower(model) = "normal"
      THEN LET d == FxDiv(S - K, FxMul(sigma, FxSqrt(expiry)))
           IN  FxMul(FxMul(FxMul(A, sigma), FxSqrt(expiry)),
                     FxPdf(d) + FxMul(w * d, FxCdf(w * d)))
      ELSE None

\* The arguments: rates of 1%, 3% and 5%, annuities 1 and 4.5, expiries of
\* 1 and 5 years, shifts 0 and 0.02; volatilities from 0.005 to 0.6.
SwaptionRates == {1000000, 3000000, 5000000}
SwaptionAnnuities == {100000000, 450000000}
SwaptionExpiries == {100000000, 500000000}
SwaptionShifts == {0, 2000000}
SwaptionSigmas == <<500000, 1000000, 2000000, 5000000, 10000000, 20000000, 40000000, 60000000>>

WInit ==
  /\ sw_in \in [S : SwaptionRates, K : SwaptionRates, A : SwaptionAnnuities,
                expiry : SwaptionExpiries, payer_receiver : {"payer", "Receiver"},
                model : {"lognormal", "normal"}, shift : SwaptionShifts]
  /\ sw_i = 1
  /\ sw_prices = <<>>

CallSwaptionFormula ==
  /\ sw_in # None
  /\ sw_i <= Len(SwaptionSigmas)
  /\ sw_prices' = Append(sw_prices,
       swaption_formula(sw_in.S, sw_in.K, sw_in.A, sw_in.expiry, SwaptionSigmas[sw_i],
                        sw_in.payer_receiver, sw_in.model, sw_in.shift))
  /\ sw_i' = sw_i + 1
  /\ UNCHANGED <<sw_in, nonW>>

WNext == CallSwaptionFormula

----
(***************************************************************************)
(* Part VIII: cells 7 to 9 of CMS_spread_options.ipynb, the integration of *)
(* the CMS spread option payoff over v (GSpec).  The swap rates S1 and S2, *)
(* the drifts mu1 and mu2 returned by get_drift and the time T to the      *)
(* start of the swaps are the same at every v; they are taken as given.    *)
(***************************************************************************)
GIdle ==
  /\ gstep = "idle" /\ g_in = None /\ v_grid = <<>> /\ g_k = 0
  /\ integrand = <<>> /\ evals = <<>> /\ trapezoids = 0
  /\ undiscounted_payoff = None /\ spread_npv = None

FxPi == 314159265

\* The exact product of two magnitudes: <<whole, rest>> stands for
\* whole + rest / FxOne (in units of 1e-8), 0 <= rest < FxOne.
FxProductAbs(x, y) ==
  LET xh == x \div FxBase
      xl == x % FxBase
      yh == y \div FxBase
      yl == y % FxBase
      m1 == xh * yl
      m2 == xl * yh
      fr == ((m1 % FxBase) + (m2 % FxBase)) * FxBase + xl * yl
  IN  <<xh * yh + m1 \div FxBase + m2 \div FxBase + fr \div FxOne, fr % FxOne>>

FxProduct(a, b) ==
  LET p == FxProductAbs(FxAbs(a), FxAbs(b))
  IN  IF FxSign(a) * FxSign(b) > 0 THEN p
      ELSE IF p[2] = 0 THEN <<0 - p[1], 0>>
      ELSE <<0 - p[1] - 1, FxOne - p[2]>>

FxPairAdd(p, q) == <<p[1] + q[1] + (p[2] + q[2]) \div FxOne, (p[2] + q[2]) % FxOne>>

\* np.linspace(start, stop, num)
linspace(start, stop, num) ==
  [k \in 1..num |->
     start * FxOne + (((stop - start) * (k - 1)) \div (num - 1)) * FxOne
       + FxDiv((((stop - start) * (k - 1)) % (num - 1)) * 100000, (num - 1) * 100000)]

\* sum of (x[k+1] - x[k]) * (y[k+1] + y[k]) for k in lo..hi
RECURSIVE TrapezoidSum(_, _, _, _)
TrapezoidSum(y, x, lo, hi) ==
  IF lo = hi THEN FxProduct(x[lo + 1] - x[lo], y[lo + 1] + y[lo])
  ELSE FxPairAdd(TrapezoidSum(y, x, lo, (lo + hi) \div 2),
                 TrapezoidSum(y, x, (lo + hi) \div 2 + 1, hi))

\* scipy.integrate.trapezoid(y, x = x): sum(d * (y[1:] + y[:-1]) / 2.0)
trapezoid(y, x, n) == FxDivInt(TrapezoidSum(y, x, 1, n - 1)[1], 2)

\* h = lambda K, S, mu, sigma, T, v: K+S*np.exp((mu - 0.5*sigma**2)*T + sigma*np.sqrt(T)*v)
h(K, S, mu, sigma, T, v) ==
  K + FxMul(S, FxExp(FxMul(mu - FxMul(FxOne \div 2, FxMul(sigma, sigma)), T)
                     + FxMul(FxMul(sigma, FxSqrt(T)), v)))

get_fv(in, v, K, sigma1, sigma2, rho) ==
  LET S1 == in.S1
      S2 == in.S2
      T == in.T
      mu1 == in.mu1
      mu2 == in.mu2
      hv == h(K, S1, mu1, sigma1, T, v)
      part1 == FxMul(S2, FxExp(FxMul(mu2, T)
                 - FxMul(FxMul(FxMul(FxOne \div 2, FxMul(rho, rho)), FxMul(sigma2, sigma2)), T)
                 + FxMul(FxMul(FxMul(rho, sigma2), FxSqrt(T)), v)))
      den == FxMul(FxMul(sigma2, FxSqrt(T)), FxSqrt(FxOne - FxMul(rho, rho)))
      part2 == FxCdf(FxDiv(FxLn(FxDiv(S2, hv))
                 + FxMul(mu2 + FxMul(FxOne \div 2 - FxMul(rho, rho), FxMul(sigma2, sigma2)), T)
                 + FxMul(FxMul(FxMul(rho, sigma2), FxSqrt(T)), v), den))
      part3 == FxMul(hv, FxCdf(FxDiv(FxLn(FxDiv(S2, hv))
                 + FxMul(mu2 - FxMul(FxOne \div 2, FxMul(sigma2, sigma2)), T)
                 + FxMul(FxMul(FxMul(rho, sigma2), FxSqrt(T)), v), den)))
  IN  FxMul(part1, part2) - part3

\* 1/np.sqrt(2*np.pi) * np.exp(-0.5*v**2) * get_fv(swap1, swap2, curve, v,
\*   K = 0.01, sigma1 = 0.2, sigma2 = 0.2, rho = -0.9)
\* (0.5*v**2 is computed as (0.5*v)*v: it saturates beyond FxMax, where
\* the exponential is below the last decimal.)
Integrand(in, v) ==
  FxMul(FxMul(FxDiv(FxOne, FxSqrt(FxMul(2 * FxOne, FxPi))),
              FxExp(0 - FxMul(FxMul(FxOne \div 2, v), v))),
        get_fv(in, v, 1000000, 20000000, 20000000, 0 - 90000000))

\* np.linspace(-8, 8, 400)
GridPoints == 400

\* Mutant: the comprehension runs over v_grid from its last element.
PointOfIterationReversed(grid, k) == grid[Len(grid) + 1 - k]

\* for v in v_grid: the element of the k-th iteration
PointOfIteration(grid, k) == grid[k]

\* The flat curve at 0.05 (SimpleDayCounter): swap rates, drifts and T of
\* the notebook's 5Y and 30Y swaps starting in one year, and a variation.
GInputs ==
  { [S1 |-> 5063024, S2 |-> 5063024, mu1 |-> 425546, mu2 |-> 1762536, T |-> 101111111],
    [S1 |-> 5100000, S2 |-> 5200000, mu1 |-> 430000, mu2 |-> 1760000, T |-> 100000000],
    [S1 |-> 5063024, S2 |-> 5063024, mu1 |-> 0, mu2 |-> 0, T |-> 100000000] }

GInit ==
  /\ gstep = "v_grid" /\ g_in \in GInputs
  /\ v_grid = <<>> /\ g_k = 0 /\ integrand = <<>> /\ evals = <<>> /\ trapezoids = 0
  /\ undiscounted_payoff = None /\ spread_npv = None

\* Mutant: a grid of 20 points.
GridCoarse == linspace(0 - 8, 8, 20)

\* v_grid = np.linspace(-8, 8, 400)
Grid == linspace(0 - 8, 8, GridPoints)

MakeGrid ==
  /\ gstep = "v_grid"
  /\ v_grid' = Grid
  /\ g_k' = 1
  /\ gstep' = "integrand"
  /\ UNCHANGED <<g_in, integrand, evals, trapezoids, undiscounted_payoff, spread_npv, nonG>>

EvaluateIntegrand ==
  /\ gstep = "integrand"
  /\ g_k <= Len(v_grid)
  /\ \E v \in {PointOfIteration(v_grid, g_k)} :
       /\ integrand' = Append(integrand, Integrand(g_in, v))
       /\ evals' = Append(evals, v)
  /\ g_k' = g_k + 1
  /\ UNCHANGED <<gstep, g_in, v_grid, trapezoids, undiscounted_payoff, spread_npv, nonG>>

Trapezoid ==
  /\ gstep = "integrand"
  /\ g_k > Len(v_grid)
  /\ undiscounted_payoff' = trapezoid(integrand, v_grid, Len(v_grid))
  /\ trapezoids' = trapezoids + 1
  /\ gstep' = "npv"
  /\ UNCHANGED <<g_in, v_grid, g_k, integrand, evals, spread_npv, nonG>>

\* npv = curve.discount(swap1.fixedSchedule()[0])*undiscounted_payoff
DiscountPayoff ==
  /\ gstep = "npv"
  /\ spread_npv' = FxMul(FxExp(0 - FxMul(5000000, g_in.T)), undiscounted_payoff)
  /\ gstep' = "done"
  /\ UNCHANGED <<g_in, v_grid, g_k, integrand, evals, trapezoids, undiscounted_payoff, nonG>>

GNext == MakeGrid \/ EvaluateIntegrand \/ Trapezoid \/ DiscountPayoff

----
(***************************************************************************)
(* Part IX: the FX forward quotes from build_fx_quotes.ipynb to            *)
(* bootstrap_fx_discount_curve.ipynb and back to a modified USD curve      *)
(* (BSpec).  The forwards are created from flat curves, shown with six     *)
(* decimals, fed as literals to the second notebook, and each              *)
(* FxSwapRateHelper fixes the discount factor of mod_usd_curve at its      *)
(* pillar.  The xccy helpers, which fix the pillars from 2Y on, and the    *)
(* interpolation between pillars belong to QuantLib and are not modelled.  *)
(***************************************************************************)
BIdle ==
  /\ bstep = "idle" /\ b_in = None /\ b_i = 0 /\ fx_created = <<>>
  /\ fwd_quotes = <<>> /\ mod_usd_discounts = <<>> /\ mod_usd_zero = <<>>

\* eur_rate = 0.01, usd_rate_mod = 0.018, spot_fx = 1.2
NotebookRates == [eur |-> 1000000, mod |-> 1800000, spot |-> 120000000]

RoundTripInputs ==
  [eur : {0, 1000000, 2000000}, mod : {1500000, 1800000, 3000000},
   spot : {120000000, 105000000}]

\* 'expiry': ['1W', '1M', '3M', '6M', '9M', '12M'] of fwd_quotes
fwd_quote_expiries == <<"1W", "1M", "3M", "6M", "9M", "12M">>

\* 'fx_fwd': [1.200187, 1.2008, 1.202402, 1.20481, 1.207222, 1.209639]
fwd_quote_literals == <<120018700, 120080000, 120240200, 120481000, 120722200, 120963900>>

IsEndOfMonth(d) == d[3] = MonthLength(d[1], d[2])

\* ql.Thirty360 (bond basis) day count
Thirty360Days(d1, d2) ==
  LET dd1 == IF d1[3] = 31 THEN 30 ELSE d1[3]
      dd2 == IF d2[3] = 31 /\ dd1 = 30 THEN 30 ELSE d2[3]
  IN  360 * (d2[1] - d1[1]) + 30 * (d2[2] - d1[2]) + (dd2 - dd1)

\* ql.SimpleDayCounter().yearFraction(d1, d2), a fraction <<num, den>>
SimpleYearFraction(d1, d2) ==
  IF \/ d1[3] = d2[3]
     \/ (d1[3] > d2[3] /\ IsEndOfMonth(d2))
     \/ (d1[3] < d2[3] /\ IsEndOfMonth(d1))
  THEN Norm(12 * (d2[1] - d1[1]) + (d2[2] - d1[2]), 12)
  ELSE Norm(Thirty360Days(d1, d2), 360)

\* time from date to the maturity of expiry p
PillarTime(p) == SimpleYearFraction(date_ymd, advance(date_ymd, Period(p)))

\* ql.FlatForward(date, rate, ql.SimpleDayCounter()).discount at time t
FlatDiscount(rate, t) == FxExp(0 - FxMul(rate, FxDivInt(t[1] * FxOne, t[2])))

\* exp(x) - 1 for |x| <= 0.03; x and the result are in units of 1e-10
ExpMinusOne(x) ==
  LET p2 == FxMul(x, x)
      p3 == FxMul(FxDivInt(p2, 100), x)
      p4 == FxMul(FxDivInt(p3, 100), x)
  IN  x + FxDivInt(p2, 200) + FxDivInt(p3, 600) + FxDivInt(p4, 2400)

\* spot_fx * eur_curve.discount(fwd_maturity)/usd_curve_mod.discount(fwd_maturity)
\* with both curves flat: spot_fx * exp((usd_rate_mod - eur_rate) * t),
\* to the nearest 1e-8
CreatedForward(in, p) ==
  LET t == PillarTime(p)
      x == FxDivInt((in.mod - in.eur) * 100 * t[1], t[2])
  IN  in.spot + FxDivInt(FxMul(in.spot, ExpMinusOne(x)), 100)

\* Mutant: the table shows four decimals.
DisplayedQuoteFourDecimals(q) == ((q + 5000) \div 10000) * 10000

\* the column fx_fwd as the output of the cell shows it: six decimals
DisplayedQuote(q) == ((q + 50) \div 100) * 100

\* ql.FxSwapRateHelper(fwd_points, spot_fx, tenor, 0, NullCalendar, Following,
\* False, True, eur_curve): the curve reprices the helper when
\* fwd_points = (eur_curve.discount(T) / mod_usd_curve.discount(T) - 1) * spot_fx
HelperDiscount(in, fwd, p) ==
  LET fwd_points == fwd - in.spot
  IN  FxDiv(FlatDiscount(in.eur, PillarTime(p)), FxOne + FxDiv(fwd_points, in.spot))

\* mod_usd_curve.zeroRate(t, ql.Continuous).rate()
ZeroRate(d, t) == FxDiv(0 - FxLn(d), FxDivInt(t[1] * FxOne, t[2]))

BInit ==
  /\ bstep = "create" /\ b_in \in RoundTripInputs /\ b_i = 1
  /\ fx_created = <<>> /\ fwd_quotes = <<>>
  /\ mod_usd_discounts = <<>> /\ mod_usd_zero = <<>>

\* build_fx_quotes.ipynb: one pass of the for loop over expiries_fwd
CreateQuote ==
  /\ bstep = "create" /\ b_i <= Len(expiries_fwd)
  /\ fx_created' = Append(fx_created, CreatedForward(b_in, expiries_fwd[b_i]))
  /\ b_i' = b_i + 1
  /\ UNCHANGED <<bstep, b_in, fwd_quotes, mod_usd_discounts, mod_usd_zero, nonB>>

\* the table shown by build_fx_quotes.ipynb becomes the literal fwd_quotes
FeedQuotes ==
  /\ bstep = "create" /\ b_i > Len(expiries_fwd)
  /\ fwd_quotes' = [i \in 1..Len(fx_created) |-> DisplayedQuote(fx_created[i])]
  /\ b_i' = 1
  /\ bstep' = "bootstrap"
  /\ UNCHANGED <<b_in, fx_created, mod_usd_discounts, mod_usd_zero, nonB>>

\* bootstrap_fx_discount_curve.ipynb: one helper of helpers_fwd and the
\* pillar of mod_usd_curve it fixes
BootstrapPillar ==
  /\ bstep = "bootstrap" /\ b_i <= Len(fwd_quotes)
  /\ \E d \in {HelperDiscount(b_in, fwd_quotes[b_i], fwd_quote_expiries[b_i])} :
       /\ mod_usd_discounts' = Append(mod_usd_discounts, d)
       /\ mod_usd_zero' = Append(mod_usd_zero, ZeroRate(d, PillarTime(fwd_quote_expiries[b_i])))
  /\ b_i' = b_i + 1
  /\ bstep' = IF b_i = Len(fwd_quotes) THEN "done" ELSE "bootstrap"
  /\ UNCHANGED <<b_in, fx_created, fwd_quotes, nonB>>

BNext == CreateQuote \/ FeedQuotes \/ BootstrapPillar

----
(***************************************************************************)
(* Part X: the two volcube cells of Swaption.ipynb (VSpec).  Periods are   *)
(* whole years, strike spreads are in basis points (1e-4), volatilities    *)
(* and volatility spreads in units of 1e-6.  The cube is asked at its own  *)
(* expiries and tenors, at strikes given by their offset from ATM.         *)
(***************************************************************************)
VIdle ==
  /\ vstep = "idle" /\ v_model = "" /\ expiries = <<>> /\ tenors = <<>>
  /\ strikeSpreads = <<>> /\ volSpreads = <<>> /\ volCube = None /\ vol_queries = <<>>

MaxVolQueries == 2

\* ql.Period(x) for the strings of the two cells
ParseYears(x) ==
  CASE x \in {"1y", "1Y"} -> 1
    [] x \in {"2y", "2Y"} -> 2
    [] x \in {"5y", "5Y"} -> 5
    [] x \in {"10y", "10Y"} -> 10

\* expiries = ['1y', '2y', '5y'], tenors = ['5Y', '10Y'],
\* strikeSpreads = [-0.01, 0, 0.01]
CubeExpiries == <<"1y", "2y", "5y">>
CubeTenors == <<"5Y", "10Y">>
CubeStrikeSpreads == <<0 - 100, 0, 100>>

\* volSpreads of the cell of each model, rows in the order of the source
CubeVolSpreads(model) ==
  IF model = "lognormal"
    THEN << <<10000, 0, 20000>>, <<30000, 0, 30000>>, <<40000, 0, 60000>>,
            <<70000, 0, 80000>>, <<90000, 0, 100000>>, <<110000, 0, 120000>> >>
    ELSE << <<1000, 0, 2000>>, <<3000, 0, 3000>>, <<4000, 0, 6000>>,
            <<7000, 0, 8000>>, <<9000, 0, 10000>>, <<11000, 0, 12000>> >>

\* The comment at the end of each row of volSpreads: option, swap.
CubeRowComments ==
  << <<"1Y", "5y">>, <<"1Y", "10y">>, <<"2Y", "5y">>,
     <<"2Y", "10y">>, <<"5Y", "5y">>, <<"5Y", "10y">> >>

\* vols of the two volsurface cells at rows 1Y, 2Y, 5Y and columns 5Y, 10Y,
\* in hundredths: lognormal [35.0, 45.3], [39.2, 47.3], [20, 51.9];
\* normal [35.0, 45.3], [39.2, 47.3], [135.77, 51.9].
AtmQuote(model, expiry, tenor) ==
  CASE expiry = 1 /\ tenor = 5 -> 3500
    [] expiry = 1 /\ tenor = 10 -> 4530
    [] expiry = 2 /\ tenor = 5 -> 3920
    [] expiry = 2 /\ tenor = 10 -> 4730
    [] expiry = 5 /\ tenor = 5 -> (IF model = "lognormal" THEN 2000 ELSE 13577)
    [] expiry = 5 /\ tenor = 10 -> 5190

\* volsurface_ATM_lognormal (vols/100) and volsurface_ATM_normal (vols/10000)
\* at a node of the matrix
AtmVolatility(model, expiry, tenor) ==
  IF model = "lognormal" THEN AtmQuote(model, expiry, tenor) * 100
  ELSE AtmQuote(model, expiry, tenor)

\* pd.DataFrame(volSpreads).applymap(lambda x: ql.QuoteHandle(ql.SimpleQuote(x))).values.tolist()
QuoteHandles(rows) ==
  [r \in 1..Len(rows) |-> [c \in 1..Len(rows[r]) |-> [quote |-> rows[r][c]]]]

\* The constructor of the cube refuses strike spreads that do not increase
\* and a volSpreads whose shape is not (expiries * tenors) x strike spreads.
SwaptionVolCube2(atm, optionTenors, swapTenors, strikes, quotes) ==
  IF /\ Len(strikes) > 1
     /\ \A c \in 1..(Len(strikes) - 1) : strikes[c] < strikes[c + 1]
     /\ Len(quotes) = Len(optionTenors) * Len(swapTenors)
     /\ \A r \in 1..Len(quotes) : Len(quotes[r]) = Len(strikes)
  THEN [ok |-> TRUE, atm |-> atm, optionTenors |-> optionTenors, swapTenors |-> swapTenors,
        strikeSpreads |-> strikes, volSpreads |-> quotes]
  ELSE [ok |-> FALSE, atm |-> atm, optionTenors |-> <<>>, swapTenors |-> <<>>,
        strikeSpreads |-> <<>>, volSpreads |-> <<>>]

\* Mutant: the rows of volSpreads are read tenor by tenor.
SpreadRowTenorMajor(cube, j, l) == (l - 1) * Len(cube.optionTenors) + j

\* The row of volSpreads read for option tenor j and swap tenor l.
SpreadRow(cube, j, l) == (j - 1) * Len(cube.swapTenors) + l

\* The volatility spread at a strike offset: linear between the quotes
\* of the neighbouring strike spreads.
SpreadAt(cube, row, offset) ==
  LET c == CHOOSE k \in 1..(Len(cube.strikeSpreads) - 1) :
             cube.strikeSpreads[k] <= offset /\ offset <= cube.strikeSpreads[k + 1]
      lo == cube.volSpreads[row][c].quote
      hi == cube.volSpreads[row][c + 1].quote
  IN  lo + ((hi - lo) * (offset - cube.strikeSpreads[c]))
             \div (cube.strikeSpreads[c + 1] - cube.strikeSpreads[c])

\* volCube.volatility(option tenor j, swap tenor l, ATM + offset):
\* the ATM volatility plus the volatility spread
CubeVolatility(cube, j, l, offset) ==
  AtmVolatility(cube.atm, cube.optionTenors[j], cube.swapTenors[l])
    + SpreadAt(cube, SpreadRow(cube, j, l), offset)

\* The strike offsets asked: the strike spreads and the points half way.
QueryOffsets == {0 - 100, 0 - 50, 0, 50, 100}

VInit ==
  /\ vstep = "lists" /\ v_model \in {"lognormal", "normal"}
  /\ expiries = <<>> /\ tenors = <<>> /\ strikeSpreads = <<>> /\ volSpreads = <<>>
  /\ volCube = None /\ vol_queries = <<>>

\* expiries = [...], tenors = [...], strikeSpreads = [...], volSpreads = [...]
AssignLists ==
  /\ vstep = "lists"
  /\ expiries' = CubeExpiries
  /\ tenors' = CubeTenors
  /\ strikeSpreads' = CubeStrikeSpreads
  /\ volSpreads' = CubeVolSpreads(v_model)
  /\ vstep' = "convert"
  /\ UNCHANGED <<v_model, volCube, vol_queries, nonV>>

\* expiries = [ql.Period(x) ...], tenors = [ql.Period(x) ...], volSpreads = ...
ConvertLists ==
  /\ vstep = "convert"
  /\ expiries' = [i \in 1..Len(expiries) |-> ParseYears(expiries[i])]
  /\ tenors' = [i \in 1..Len(tenors) |-> ParseYears(tenors[i])]
  /\ volSpreads' = QuoteHandles(volSpreads)
  /\ vstep' = "cube"
  /\ UNCHANGED <<v_model, strikeSpreads, volCube, vol_queries, nonV>>

\* volCube = ql.SwaptionVolCube2(volsurface_ATM_..., expiries, tenors,
\*   strikeSpreads, volSpreads, ...)
BuildCube ==
  /\ vstep = "cube"
  /\ volCube' = SwaptionVolCube2(v_model, expiries, tenors, strikeSpreads, volSpreads)
  /\ vstep' = "built"
  /\ UNCHANGED <<v_model, expiries, tenors, strikeSpreads, volSpreads, vol_queries, nonV>>

\* a volatility is read from the cube, as the pricing engine does
QueryVolatility ==
  /\ vstep = "built" /\ volCube.ok /\ Len(vol_queries) < MaxVolQueries
  /\ \E j \in 1..Len(volCube.optionTenors), l \in 1..Len(volCube.swapTenors),
        offset \in QueryOffsets :
       vol_queries' = Append(vol_queries,
         [expiry |-> volCube.optionTenors[j], tenor |-> volCube.swapTenors[l],
          offset |-> offset, vol |-> CubeVolatility(volCube, j, l, offset)])
  /\ UNCHANGED <<vstep, v_model, expiries, tenors, strikeSpreads, volSpreads, volCube, nonV>>

VNext == AssignLists \/ ConvertLists \/ BuildCube \/ QueryVolatility

----
(***************************************************************************)
(* Part XI: get_drift of CMS_spread_options.ipynb                          *)
(*                                                                         *)
(* get_drift differences psi at S0 - h, S0 and S0 + h with h = 0.0001, so  *)
(* the values of psi are carried to sixteen decimals: a number is          *)
(* <<n, a, b, c, d>> and stands for n + a/1e4 + b/1e8 + c/1e12 + d/1e16    *)
(* with a, b, c, d in 0..9999 and n any integer (a negative number has a   *)
(* negative n and a non-negative fraction).  sigma, h, the year fractions  *)
(* and the returned drift are in units of 1e-8 as elsewhere.  The          *)
(* schedules of the model have a whole number of half-years between their  *)
(* dates under the 30/360 day count, so every exponent of psi is a         *)
(* multiple of 0.5.                                                        *)
(***************************************************************************)
MIdle ==
  /\ mstep = "idle" /\ m_args = None /\ m_schedule = None /\ m_S0 = None /\ m_h = None
  /\ psi_plus = None /\ psi_minus = None /\ psi_zero = None /\ psi_prime = None
  /\ psi_second = None /\ Talpha = None /\ CMS_rate = None /\ drift = None
  /\ m_ret = None /\ m_last = None

\* Carries of a tuple of five integers, from the last place up.
HpNorm(l) ==
  LET c5 == l[5] \div FxBase
      d4 == l[4] + c5
      c4 == d4 \div FxBase
      d3 == l[3] + c4
      c3 == d3 \div FxBase
      d2 == l[2] + c3
      c2 == d2 \div FxBase
  IN  <<l[1] + c2, d2 % FxBase, d3 % FxBase, d4 % FxBase, l[5] % FxBase>>

HpZero == <<0, 0, 0, 0, 0>>
HpOne == <<1, 0, 0, 0, 0>>
HpTwo == <<2, 0, 0, 0, 0>>
HpAdd(a, b) == HpNorm([k \in 1..5 |-> a[k] + b[k]])
HpSub(a, b) == HpNorm([k \in 1..5 |-> a[k] - b[k]])
HpNeg(a) == HpSub(HpZero, a)
\* a * n and a / n for a small positive integer n
HpMulInt(a, n) == HpNorm([k \in 1..5 |-> a[k] * n])
HpDivInt(a, n) ==
  LET r1 == a[1] % n
      d2 == r1 * FxBase + a[2]
      d3 == (d2 % n) * FxBase + a[3]
      d4 == (d3 % n) * FxBase + a[4]
      d5 == (d4 % n) * FxBase + a[5]
  IN  <<a[1] \div n, d2 \div n, d3 \div n, d4 \div n, d5 \div n>>

\* a * b, rounded to the sixteenth decimal
HpMul(a, b) ==
  LET P(k) == LET T(i) == IF k - i >= 1 /\ k - i <= 5 THEN a[i] * b[k - i] ELSE 0
              IN  T(1) + T(2) + T(3) + T(4) + T(5)
      c9 == P(10) \div FxBase
      c8 == (P(9) + c9) \div FxBase
      c7 == (P(8) + c8) \div FxBase
      c6 == (P(7) + c7 + FxBase \div 2) \div FxBase
  IN  HpNorm(<<P(2), P(3), P(4), P(5), P(6) + c6>>)

HpFromFx(v) == <<v \div FxOne, (v % FxOne) \div FxBase, v % FxBase, 0, 0>>
HpToFx(a) == a[1] * FxOne + a[2] * FxBase + a[3] + (a[4] + FxBase \div 2) \div FxBase

\* 1 / x for 0.01 <= x < 2000: a first guess from the leading digits of x,
\* then three steps of Newton's iteration s <- s * (2 - x * s).
HpRecipGuess(x) ==
  IF x[1] >= 1
  THEN HpFromFx(FxDiv(1000000, x[1] * 1000000 + x[2] * 100 + x[3] \div 100))
  ELSE LET q == 1000000000 \div (x[2] * FxBase + x[3])
       IN  <<q \div 10, (q % 10) * 1000, 0, 0, 0>>
HpNewton(x, s) == HpMul(s, HpSub(HpTwo, HpMul(x, s)))
HpRecipPos(x) == HpNewton(x, HpNewton(x, HpNewton(x, HpRecipGuess(x))))
HpRecip(x) == IF x[1] < 0 THEN HpNeg(HpRecipPos(HpNeg(x))) ELSE HpRecipPos(x)
HpDiv(a, b) == HpMul(a, HpRecip(b))

\* sqrt(x): two steps of s <- (s + x / s) / 2 from the eight-decimal root
HpHeron(x, s) == HpDivInt(HpAdd(s, HpDiv(x, s)), 2)
HpSqrt(x) == HpHeron(x, HpHeron(x, HpFromFx(FxSqrt(HpToFx(x)))))

\* x ** t for t a multiple of 0.5 (t in units of 1e-8)
RECURSIVE HpPowInt(_, _)
HpPowInt(x, k) ==
  IF k = 0 THEN HpOne
  ELSE IF k = 1 THEN x
  ELSE LET r == HpPowInt(x, k \div 2)
           sq == HpMul(r, r)
       IN  IF k % 2 = 1 THEN HpMul(sq, x) ELSE sq
HpPow(x, t) ==
  LET k == t \div (FxOne \div 2)
      p == HpPowInt(x, k \div 2)
  IN  IF k % 2 = 1 THEN HpMul(p, HpSqrt(x)) ELSE p

\* swap.fixedDayCount() of a swap made by MakeVanillaSwap on Euribor6M
fixedDayCount(d1, d2) == Thirty360(d1, d2)

\* psi = lambda y, curve, day_counter, schedule:
\*   sum(day_counter.yearFraction(schedule[i-1], di)
\*       / (1+y)**day_counter.yearFraction(schedule[0], di)
\*       for i, di in enumerate(schedule[1:], 1))
RECURSIVE PsiSum(_, _, _, _)
PsiSum(y, sched, i, acc) ==
  IF i > Len(sched) \/ acc[1] < 0 THEN acc
  ELSE PsiSum(y, sched, i + 1,
              HpAdd(acc, HpDiv(HpFromFx(fixedDayCount(sched[i - 1], sched[i])),
                               HpPow(HpAdd(HpOne, y), fixedDayCount(sched[1], sched[i])))))
psi(y, sched) == PsiSum(y, sched, 2, HpZero)

\* Mutant: the difference of psi_plus and psi_minus over h.
PsiPrimeOverH(pp, pm, hh) == HpMulInt(HpSub(pp, pm), FxOne \div hh)

\* psi_prime = (psi_plus - psi_minus)/(2*h); 1/h is a whole number
PsiPrime(pp, pm, hh) == HpDivInt(HpMulInt(HpSub(pp, pm), FxOne \div hh), 2)

\* psi_second = (psi_plus - 2*psi_zero + psi_minus)/h**2
PsiSecond(pp, pz, pm, hh) ==
  HpMulInt(HpMulInt(HpAdd(HpSub(pp, HpMulInt(pz, 2)), pm), FxOne \div hh), FxOne \div hh)

\* CMS_rate = S0 - 0.5 * S0**2 *sigma**2 * Talpha * psi_second / psi_prime
Equation1316(S0v, sg, Ta, p2, p1) ==
  LET half_S0_squared == HpDivInt(HpMul(S0v, S0v), 2)
      times_sigma_squared == HpMul(half_S0_squared, HpMul(HpFromFx(sg), HpFromFx(sg)))
      times_Talpha == HpMul(times_sigma_squared, HpFromFx(Ta))
      times_psi_second == HpMul(times_Talpha, p2)
  IN  HpSub(S0v, HpDiv(times_psi_second, p1))

\* drift = 1/Talpha * np.log(CMS_rate/S0)
DriftOf(cms, S0v, Ta) == FxMul(FxDiv(FxOne, Ta), FxLn(HpToFx(HpDiv(cms, S0v))))

\* Mutant: the step is the argument h.
StepOfArgument(h_arg) == h_arg

\* h = 0.0001
StepUsed(h_arg) == 10000

\* ql.MakeVanillaSwap: the fixed schedule, unadjusted, and the fair rate
MakeVanillaSwap(start, months, periods, rate) ==
  [fixedSchedule |-> [i \in 1..(periods + 1) |-> AddMonths(start, months * (i - 1))],
   fairRate |-> rate]

\* The swaps, volatilities and steps get_drift is called with: swaps of
\* ten and of sixty half-years like swap1 and swap2 at their fair rate,
\* and a swap of three years.
DriftSwaps ==
  {MakeVanillaSwap(<<2023, 10, 24>>, 6, 10, 5063024),
   MakeVanillaSwap(<<2023, 10, 24>>, 6, 60, 5063024),
   MakeVanillaSwap(<<2023, 10, 24>>, 12, 3, 3000000)}
DriftSigmas == {0, 20000000}
DriftSteps == {10000, 1000000}

MInit ==
  /\ mstep = "call" /\ m_args = None /\ m_schedule = None /\ m_S0 = None /\ m_h = None
  /\ psi_plus = None /\ psi_minus = None /\ psi_zero = None /\ psi_prime = None
  /\ psi_second = None /\ Talpha = None /\ CMS_rate = None /\ drift = None
  /\ m_ret = None /\ m_last = None

\* def get_drift(swap, curve, sigma, h = 0.0001): a call binds the
\* parameters; the call that returned before it goes to the log.
CallGetDrift ==
  /\ mstep \in {"call", "returned"}
  /\ \E swap \in DriftSwaps, sg \in DriftSigmas, h_arg \in DriftSteps :
       m_args' = [swap |-> swap, sigma |-> sg, h |-> h_arg]
  /\ m_h' = m_args'.h
  /\ m_last' = IF mstep = "returned"
               THEN [swap |-> m_args.swap, sigma |-> m_args.sigma, h_arg |-> m_args.h,
                     h |-> m_h, drift |-> m_ret]
               ELSE m_last
  /\ m_schedule' = None /\ m_S0' = None
  /\ psi_plus' = None /\ psi_minus' = None /\ psi_zero' = None /\ psi_prime' = None
  /\ psi_second' = None /\ Talpha' = None /\ CMS_rate' = None /\ drift' = None
  /\ m_ret' = None
  /\ mstep' = "schedule"
  /\ UNCHANGED nonM

\* schedule = list(swap.fixedSchedule()); day_counter = swap.fixedDayCount();
\* S0 = swap.fairRate()
ReadSwap ==
  /\ mstep = "schedule"
  /\ m_schedule' = m_args.swap.fixedSchedule
  /\ m_S0' = HpFromFx(m_args.swap.fairRate)
  /\ mstep' = "h"
  /\ UNCHANGED <<m_args, m_h, psi_plus, psi_minus, psi_zero, psi_prime, psi_second,
                 Talpha, CMS_rate, drift, m_ret, m_last, nonM>>

AssignH ==
  /\ mstep = "h"
  /\ m_h' = StepUsed(m_h)
  /\ mstep' = "psi_plus"
  /\ UNCHANGED <<m_args, m_schedule, m_S0, psi_plus, psi_minus, psi_zero, psi_prime,
                 psi_second, Talpha, CMS_rate, drift, m_ret, m_last, nonM>>

\* psi_plus = psi(S0+h, curve, day_counter, schedule)
AssignPsiPlus ==
  /\ mstep = "psi_plus"
  /\ \E r \in {psi(HpAdd(m_S0, HpFromFx(m_h)), m_schedule)} : psi_plus' = r
  /\ mstep' = "psi_minus"
  /\ UNCHANGED <<m_args, m_schedule, m_S0, m_h, psi_minus, psi_zero, psi_prime,
                 psi_second, Talpha, CMS_rate, drift, m_ret, m_last, nonM>>

\* psi_minus = psi(S0-h, curve, day_counter, schedule)
AssignPsiMinus ==
  /\ mstep = "psi_minus"
  /\ \E r \in {psi(HpSub(m_S0, HpFromFx(m_h)), m_schedule)} : psi_minus' = r
  /\ mstep' = "psi_zero"
  /\ UNCHANGED <<m_args, m_schedule, m_S0, m_h, psi_plus, psi_zero, psi_prime,
                 psi_second, Talpha, CMS_rate, drift, m_ret, m_last, nonM>>

\* psi_zero = psi(S0, curve, day_counter, schedule)
AssignPsiZero ==
  /\ mstep = "psi_zero"
  /\ \E r \in {psi(m_S0, m_schedule)} : psi_zero' = r
  /\ mstep' = "psi_prime"
  /\ UNCHANGED <<m_args, m_schedule, m_S0, m_h, psi_plus, psi_minus, psi_prime,
                 psi_second, Talpha, CMS_rate, drift, m_ret, m_last, nonM>>

AssignPsiPrime ==
  /\ mstep = "psi_prime"
  /\ psi_prime' = PsiPrime(psi_plus, psi_minus, m_h)
  /\ mstep' = "psi_second"
  /\ UNCHANGED <<m_args, m_schedule, m_S0, m_h, psi_plus, psi_minus, psi_zero,
                 psi_second, Talpha, CMS_rate, drift, m_ret, m_last, nonM>>

AssignPsiSecond ==
  /\ mstep = "psi_second"
  /\ psi_second' = PsiSecond(psi_plus, psi_zero, psi_minus, m_h)
  /\ mstep' = "Talpha"
  /\ UNCHANGED <<m_args, m_schedule, m_S0, m_h, psi_plus, psi_minus, psi_zero,
                 psi_prime, Talpha, CMS_rate, drift, m_ret, m_last, nonM>>

\* Talpha = day_counter.yearFraction(today,schedule[0])
AssignTalpha ==
  /\ mstep = "Talpha"
  /\ Talpha' = fixedDayCount(today, m_schedule[1])
  /\ mstep' = "CMS_rate"
  /\ UNCHANGED <<m_args, m_schedule, m_S0, m_h, psi_plus, psi_minus, psi_zero,
                 psi_prime, psi_second, CMS_rate, drift, m_ret, m_last, nonM>>

AssignCmsRate ==
  /\ mstep = "CMS_rate"
  /\ \E r \in {Equation1316(m_S0, m_args.sigma, Talpha, psi_second, psi_prime)} : CMS_rate' = r
  /\ mstep' = "drift"
  /\ UNCHANGED <<m_args, m_schedule, m_S0, m_h, psi_plus, psi_minus, psi_zero,
                 psi_prime, psi_second, Talpha, drift, m_ret, m_last, nonM>>

AssignDrift ==
  /\ mstep = "drift"
  /\ \E r \in {DriftOf(CMS_rate, m_S0, Talpha)} : drift' = r
  /\ mstep' = "return"
  /\ UNCHANGED <<m_args, m_schedule, m_S0, m_h, psi_plus, psi_minus, psi_zero,
                 psi_prime, psi_second, Talpha, CMS_rate, m_ret, m_last, nonM>>

\* return drift
ReturnDrift ==
  /\ mstep = "return"
  /\ m_ret' = drift
  /\ mstep' = "returned"
  /\ UNCHANGED <<m_args, m_schedule, m_S0, m_h, psi_plus, psi_minus, psi_zero,
                 psi_prime, psi_second, Talpha, CMS_rate, drift, m_last, nonM>>

MNext ==
  \/ CallGetDrift
  \/ ReadSwap
  \/ AssignH
  \/ AssignPsiPlus
  \/ AssignPsiMinus
  \/ AssignPsiZero
  \/ AssignPsiPrime
  \/ AssignPsiSecond
  \/ AssignTalpha
  \/ AssignCmsRate
  \/ AssignDrift
  \/ ReturnDrift

----
(***************************************************************************)
(* The specifications.                                                     *)
(***************************************************************************)
Init == KInit /\ XIdle /\ FIdle /\ QIdle /\ IIdle /\ CIdle /\ WIdle /\ GIdle /\ BIdle /\ VIdle /\ MIdle
Next == ExecPy \/ ExecLib \/ ExecSetEvalDate \/ ExecAttach \/ ExecPrice \/ ExecPrint \/ Raise
Spec == Init /\ [][Next]_vars

XInit == DInit /\ KIdle /\ FIdle /\ QIdle /\ IIdle /\ CIdle /\ WIdle /\ GIdle /\ BIdle /\ VIdle /\ MIdle
XNext == DriverIterate \/ DriverTable
XSpec == XInit /\ [][XNext]_vars

AInitAll == AInit /\ KIdle /\ FIdle /\ QIdle /\ IIdle /\ CIdle /\ WIdle /\ GIdle /\ BIdle /\ VIdle /\ MIdle
ASpec == AInitAll /\ [][ANext]_vars

FInitAll == FInit /\ KIdle /\ XIdle /\ QIdle /\ IIdle /\ CIdle /\ WIdle /\ GIdle /\ BIdle /\ VIdle /\ MIdle
FSpec == FInitAll /\ [][FNext]_vars

QInitAll == QInit /\ KIdle /\ XIdle /\ FIdle /\ IIdle /\ CIdle /\ WIdle /\ GIdle /\ BIdle /\ VIdle /\ MIdle
QSpec == QInitAll /\ [][QNext]_vars

IInitAll == IInit /\ KIdle /\ XIdle /\ FIdle /\ QIdle /\ CIdle /\ WIdle /\ GIdle /\ BIdle /\ VIdle /\ MIdle
ISpec == IInitAll /\ [][INext]_vars

CInitAll == CInit /\ KIdle /\ XIdle /\ FIdle /\ QIdle /\ IIdle /\ WIdle /\ GIdle /\ BIdle /\ VIdle /\ MIdle
CSpec == CInitAll /\ [][CNext]_vars

WInitAll == WInit /\ KIdle /\ XIdle /\ FIdle /\ QIdle /\ IIdle /\ CIdle /\ GIdle /\ BIdle /\ VIdle /\ MIdle
WSpec == WInitAll /\ [][WNext]_vars

GInitAll == GInit /\ KIdle /\ XIdle /\ FIdle /\ QIdle /\ IIdle /\ CIdle /\ WIdle /\ BIdle /\ VIdle /\ MIdle
GSpec == GInitAll /\ [][GNext]_vars

BInitAll == BInit /\ KIdle /\ XIdle /\ FIdle /\ QIdle /\ IIdle /\ CIdle /\ WIdle /\ GIdle /\ VIdle /\ MIdle
BSpec == BInitAll /\ [][BNext]_vars

VInitAll == VInit /\ KIdle /\ XIdle /\ FIdle /\ QIdle /\ IIdle /\ CIdle /\ WIdle /\ GIdle /\ BIdle /\ MIdle
VSpec == VInitAll /\ [][VNext]_vars

MInitAll == MInit /\ KIdle /\ XIdle /\ FIdle /\ QIdle /\ IIdle /\ CIdle /\ WIdle /\ GIdle /\ BIdle /\ VIdle
MSpec == MInitAll /\ [][MNext]_vars

----
(***************************************************************************)
(* Claims about the notebook runs (Spec).                                  *)
(***************************************************************************)

\* C1: in Swaption.ipynb every print of 'Swaption price in ... model is {npv}'
\* shows the NPV computed in the printing cell, under the engine attached in
\* that cell.  (Stated as claimed; the ATM vol matrix cells violate it.)
C1_PrintedNpvIsOfItsCell ==
  nb = "Swaption" =>
    \A i \in 1..Len(out) :
      "npv" \in DOMAIN out[i].shown =>
        /\ out[i].shown["npv"].cell = out[i].cell
        /\ out[i].shown["npv"].engCell = out[i].cell

\* C5: after construction an instrument changes only by having an engine or
\* pricer attached; the swaption's engines are Black or Bachelier, the CMS
\* coupon's pricer is the linear TSR pricer; parameters never change.
SwaptionEngines == {"BlackSwaptionEngine", "BachelierSwaptionEngine"}
C5_EnginesClosed ==
  \A i \in DOMAIN inst :
    /\ (i = "swaption" => inst[i].engine.kind \in SwaptionEngines \cup {"none"})
    /\ (i = "cms" => inst[i].engine.kind \in {"LinearTsrPricer", "none"})
    /\ (i \notin {"swaption", "cms"} => inst[i].engine = NoEngine)
C5_ParamsFrozen ==
  \A i \in DOMAIN inst :
    /\ i \in DOMAIN inst'
    /\ inst'[i].made = inst[i].made
    /\ inst'[i].params = inst[i].params
C5_OnlyEnginesAttached == [](C5_EnginesClosed) /\ [][C5_ParamsFrozen]_vars
C5_Witness ==
  /\ nb = "Swaption" /\ "swaption" \in DOMAIN inst
  /\ inst["swaption"].engine = [kind |-> "BachelierSwaptionEngine", line |-> 607, cell |-> 12]
  /\ inst["swaption"].made = 74

\* C6 (as claimed): every object is used for one pricing computation only.
C6_EveryObjectUsedOnce ==
  \A i, j \in 1..Len(priced) :
    i # j => priced[i].insts \cap priced[j].insts = {}

\* C6 (amended): in Swaption.ipynb every engine attached to the swaption is
\* used for one NPV computation, in the cell that attaches it, while the one
\* swaption built at the start is the instrument of all of them.
C6_EnginesUsedOnce ==
  nb = "Swaption" =>
    \A i \in 1..Len(priced) :
      /\ \A e \in priced[i].engs :
           /\ e.cell = priced[i].cell
           /\ \A j \in 1..Len(priced) : j # i => e \notin priced[j].engs
      /\ priced[i].engs # {} => priced[i].insts = {74}
C6_Witness ==
  /\ nb = "Swaption" /\ status = "done"
  /\ Cardinality({i \in 1..Len(priced) : priced[i].insts = {74}}) = 8

\* C8: the evaluation date is assigned once per run, before any curve or
\* volatility whose reference date comes from it is built and before any
\* pricing call, and every object is valued under the evaluation date it
\* was built under.
C8_EvalDateAssignedOnceFirst ==
  /\ evalSets <= 1
  /\ (status = "done" => evalSets = 1)
  /\ \A i \in 1..Len(evlog) :
       /\ (evlog[i].op = "price" \/ "refEval" \in evlog[i].tags) => evlog[i].ev # 0
       /\ evlog[i].stamps \subseteq {evlog[i].ev}
C8_Witness ==
  /\ nb = "ForwardCurves" /\ status = "done" /\ evalSets = 1
  /\ \E i \in 1..Len(evlog) : "refEval" \in evlog[i].tags /\ evlog[i].ev = 77

\* C9: no statement reads a name that no earlier statement of the run bound.
C9_DefinedBeforeUse ==
  /\ err # "NameError"
  /\ (Running => Undefined(Cur) = {})
C9_Witness ==
  /\ nb = "Swaption" /\ status = "done"
  /\ ns["volCube"].line = 603 /\ ns["npv"].line = 608

\* C10: a failure halts the run at the failing statement: nothing is bound
\* or printed by the failing statement, and nothing runs after it.
C10_Halted ==
  /\ (err # "none" => status = "halted")
  /\ (status = "halted" => \A i \in 1..Len(out) : out[i].line < Cur.line)
C10_NoStepAfterFailure ==
  (status = "halted" \/ err' # err) =>
     /\ status' = "halted"
     /\ pc' = pc /\ ns' = ns /\ out' = out /\ priced' = priced
----
(***************************************************************************)
(* Claims about the xccy quote builder (XSpec, ASpec).                     *)
(***************************************************************************)
FairSpreadCalls == {i \in 1..Len(calls) : calls[i].op = "fair_spread"}

\* C2 (as stated): whatever the tenor and the discount curves, the first
\* fair_spread call on an xccy_swap returns a spread, and the swap rebuilt with
\* the same inputs and that spread has npv = 0 on the same discount curves.
C2_FairSpreadIsFair ==
  \A i \in FairSpreadCalls :
    calls[i].err # "KeyError" =>
      /\ calls[i].ok
      /\ LET n == Objective(calls[i].inputs, calls[i].val,
                            curves.eur_discount_curve, curves.usd_discount_curve)
         IN  n.ok /\ n.val = Zero

\* C3: the driver loop constructs one xccy_swap per maturity, in the order of
\* maturities_xccy, calls fair_spread exactly once on each (one root-find per
\* call), and the table has exactly one spread per maturity in that order.
C3_OneRootFindPerTenor ==
  /\ Len(heap) = Len(calls)
  /\ Len(calls) <= Len(Maturities)
  /\ \A i \in 1..Len(calls) :
       /\ calls[i].op = "fair_spread" /\ calls[i].obj = i
       /\ calls[i].tenor = Maturities[i]
       /\ calls[i].rootfinds = 1
  /\ Len(spreads) = Cardinality({i \in 1..Len(calls) : calls[i].ok})
  /\ \A i \in 1..Len(spreads) : spreads[i] = calls[i].val
  /\ dstatus = "done" =>
       /\ Len(calls) = Len(Maturities)
       /\ Len(table) = Len(Maturities)
       /\ \A i \in 1..Len(Maturities) :
            /\ table[i].expiry = Maturities[i]
            /\ table[i].EUR_spread = calls[i].val

C3_Witness ==
  /\ dstatus = "done" /\ Len(table) = Len(Maturities) /\ Len(table) >= 2
  /\ table[1].EUR_spread # table[2].EUR_spread

\* C4 (as stated): fair_spread leaves self.inputs as the constructor stored it,
\* and every fair_spread call on one object with the same curves ends the same
\* way and returns the same spread as the first.
C4_FairSpreadLeavesObject ==
  /\ heap # <<>> => DOMAIN heap[1].inputs = InputKeys
  /\ \A i \in FairSpreadCalls : \A j \in FairSpreadCalls :
       calls[i].err = calls[j].err /\ calls[i].val = calls[j].val

----
(***************************************************************************)
(* Claims about forward_curves.ipynb (FSpec).                              *)
(***************************************************************************)
CurveBuilt == fstep \in {"sample", "done"}

\* C7 (as stated): the list of forward rates passed to ql.ForwardCurve equals,
\* element for element, the 'fwd_cont' column as loaded.
C7_RatesAsLoaded == CurveBuilt => fwd_curve.rates = loaded.fwd_cont

\* C7 (amended): the loaded table is never modified, and the list passed to
\* ql.ForwardCurve equals the loaded 'fwd_cont' column in every element but the
\* first, which holds the value of the second element.
C7_RatesAsLoadedButFirst ==
  /\ data # <<>> => data = loaded
  /\ CurveBuilt =>
       /\ Len(fwd_curve.rates) = Len(loaded.fwd_cont)
       /\ fwd_curve.rates[1] = loaded.fwd_cont[2]
       /\ \A i \in 2..Len(loaded.fwd_cont) : fwd_curve.rates[i] = loaded.fwd_cont[i]

C7_Witness ==
  /\ fstep = "done"
  /\ loaded.fwd_cont[1] = NaN /\ fwd_curve.rates[1] # NaN
  /\ fwd_curve.rates[2] # fwd_curve.rates[3]

----
(***************************************************************************)
(* Claims about the FX forward quotes (QSpec).                             *)
(***************************************************************************)
\* C11: for every expiry of expiries_fwd the quote equals
\* spot_fx * D_EUR(m) / D_modUSD(m), m being the evaluation date advanced by
\* the expiry, and the table has one row per expiry in the order of expiries_fwd.
C11_FxForwardQuotes ==
  /\ Len(quotes_fx) = (IF qstatus = "idle" THEN 0 ELSE qi - 1)
  /\ \A i \in 1..Len(quotes_fx) :
       LET m == advance(date_ymd, Period(expiries_fwd[i]))
       IN  quotes_fx[i] = RMul(spot_fx, RDiv(discount(fx_curves.eur_curve, m),
                                             discount(fx_curves.usd_curve_mod, m)))
  /\ qstatus = "done" =>
       /\ Len(fx_table) = Len(expiries_fwd)
       /\ \A i \in 1..Len(expiries_fwd) :
            fx_table[i].expiry = expiries_fwd[i] /\ fx_table[i].fx_fwd = quotes_fx[i]

C11_Witness ==
  /\ qstatus = "done" /\ Len(fx_table) = 6
  /\ fx_curves.usd_curve # fx_curves.usd_curve_mod
  /\ fx_curves.eur_curve # fx_curves.usd_curve_mod
  /\ fx_table[1].fx_fwd # fx_table[6].fx_fwd
  /\ fwd_maturities = <<<<2022, 8, 25>>, <<2022, 9, 18>>, <<2022, 11, 18>>,
                        <<2023, 2, 18>>, <<2023, 5, 18>>, <<2023, 8, 18>>>>

\* C13: the ForwardCurve starts at the first date of the date vector
\* (2019-11-01), whatever the evaluation date is when it is built.
C13_ReferenceIsFirstDate ==
  CurveBuilt => fwd_curve.reference = loaded.date[1] /\ fwd_curve.reference = SheetDates[1]

C13_Witness ==
  /\ CurveBuilt /\ evaluationDate = Date_2022_01_01
  /\ fwd_curve.reference # evaluationDate

\* The sampled forwards do not depend on the value stored in fwd_rates[0].
FirstRateHasNoRole ==
  \A v \in Rates \cup {NaN} : \A d \in DOMAIN sample_fwds :
    forwardRate(ForwardCurve(end_dates, [fwd_rates EXCEPT ![1] = v]), d) = sample_fwds[d]

C20_IndexOf20040512 ==
  (istep = "done" /\ i_date = <<2004, 5, 12>> /\ lag = 3) =>
    /\ I[<<2004, 5, 1>>] = <<18620, 1>>
    /\ I[<<2004, 6, 1>>] = <<18740, 1>>
    /\ I[<<2004, 5, 12>>] = ExampleValue

\* C21: for every date yyyy-mm-dd and every lag, I(yyyy-mm-01) is the CPI of
\* the month lag months before yyyy-mm and the index on the first day of
\* the following month is the CPI of the month after that one, the year
\* stepping back when mm - lag is not a month of yyyy and forward after
\* December; and the index at the payoff date of a 10Y ZCIS with a
\* 3-month lag rests on the CPI of 9 years and 9 months after today's month.
C21_EdgesAreLaggedCpi ==
  istep # "edges" =>
    LET y == i_date[1]
        m == i_date[2]
        first == <<y, m, 1>>
        following == IF m = 12 THEN <<y + 1, 1, 1>> ELSE <<y, m + 1, 1>>
        lagged == IF m - lag >= 1 THEN <<y, m - lag>> ELSE <<y - 1, m - lag + 12>>
        after == IF lagged[2] = 12 THEN <<lagged[1] + 1, 1>> ELSE <<lagged[1], lagged[2] + 1>>
        T == ZcisMaturity(i_date, 10)
        IT == EdgeValues(T, 3)
        nine_nine == IF m + 9 <= 12 THEN <<y + 9, m + 9>> ELSE <<y + 10, m - 3>>
    IN  /\ first \in DOMAIN I /\ following \in DOMAIN I
        /\ I[first] = CPI(lagged[1], lagged[2])
        /\ I[following] = CPI(after[1], after[2])
        /\ <<T[1], T[2], 1>> \in DOMAIN IT
        /\ IT[<<T[1], T[2], 1>>] = CPI(nine_nine[1], nine_nine[2])

C21_Witness ==
  /\ istep = "done" /\ i_date = <<2004, 1, 15>> /\ lag = 3
  /\ I[<<2004, 1, 1>>] = CPI(2003, 10) /\ I[<<2004, 2, 1>>] = CPI(2003, 11)

(***************************************************************************)
(* Claims about the hand-computed CMS rate (CSpec).                        *)
(***************************************************************************)
\* The formulas of the CMS rate: delta_i, T_i of the fixed schedule,
\* G(tau) = (1 - exp(-kappa tau)) / kappa, A, gamma, a(Tp) and Var.
FormulaG(in, tau) == FxDiv(FxOne - FxExp(0 - FxMul(in.kappa, tau)), in.kappa)
FormulaTerm(in, i) ==
  FxMul(yearfrac(fixedSchedule(in)[i - 1], fixedSchedule(in)[i]), B(fixedSchedule(in)[i]))
FormulaA(in) ==
  SumTo([i \in 2..(swap_tenor + 1) |-> FormulaTerm(in, i)], swap_tenor + 1)
FormulaGamma(in) ==
  FxDiv(SumTo([i \in 2..(swap_tenor + 1) |->
                 FxMul(FormulaTerm(in, i), FormulaG(in, yearfrac(T0(in), fixedSchedule(in)[i])))],
              swap_tenor + 1),
        FormulaA(in))
FormulaACoefficient(in) ==
  FxDiv(FxMul(B(Tp), FormulaGamma(in) - FormulaG(in, yearfrac(T0(in), Tp))),
        FxMul(B(TN(in)), FormulaG(in, yearfrac(T0(in), TN(in))))
          + FxMul(FxMul(FormulaA(in), in.S), FormulaGamma(in)))
FormulaVar(in) ==
  FxMul(FxMul(in.S + in.shift, in.S + in.shift),
        FxExp(FxMul(FxMul(in.sigma, in.sigma), yearfrac(today, T0(in)))) - FxOne)
FormulaCmsRate(in) ==
  in.S + FxMul(FxMul(FxDiv(FormulaA(in), B(Tp)), FormulaACoefficient(in)), FormulaVar(in))

\* C15: the hand-computed CMS rate equals S + (A / B(0,Tp)) * a(Tp) * Var
\* with Var, a(Tp), gamma, A and G as in the formulas (kappa > 0); it is a
\* function of the values the cell reads, which the cell leaves unchanged,
\* and it is the value printed.
C15_CmsRateIsFormula ==
  /\ (cstep \in {"print", "done"} /\ cms_in.kappa > 0) =>
       cms_rate = FormulaCmsRate(cms_in)
  /\ cstep = "done" => cms_out = <<cms_rate, cms_rate - cms_in.S>>

C15_Witness ==
  /\ cstep = "done"
  /\ cms_in = [S |-> 3082202, sigma |-> 60000000, shift |-> 2000000,
               kappa |-> 5000000, T0_period |-> 2]
  /\ cms_rate = FormulaCmsRate(cms_in)
  /\ cms_rate > cms_in.S

\* sigma^2 * T0 of the run.
SigmaSquaredT0 == FxMul(FxMul(cms_in.sigma, cms_in.sigma), yearfrac(today, T0(cms_in)))

\* C16: Var = (S + s)^2 (exp(sigma^2 T0) - 1) tends to 0 with sigma^2 T0
\* (it lies between 0 and 2 (S + s)^2 sigma^2 T0, up to the last decimal),
\* it is 0 when sigma^2 T0 is 0, and the CMS rate then equals S.
C16_VarVanishes ==
  cstep \in {"cms_rate", "print", "done"} =>
    /\ var >= 0
    /\ var <= 2 * FxMul(FxMul(cms_in.S + cms_in.shift, cms_in.S + cms_in.shift), SigmaSquaredT0) + 1
    /\ (cms_in.sigma = 0 \/ cms_in.T0_period = 0) =>
         /\ var = 0
         /\ cstep \in {"print", "done"} => cms_rate = cms_in.S

C16_Witness ==
  /\ cstep = "done"
  /\ cms_in.sigma = 0 /\ cms_in.T0_period = 2
  /\ a_Tp # 0
  /\ var = 0 /\ cms_rate = cms_in.S

(***************************************************************************)
(* Claims about swaption_formula (WSpec).                                  *)
(***************************************************************************)
\* C17: for fixed S, K, A and expiry the price returned by swaption_formula
\* is never negative and never decreases when sigma rises, in both models
\* and for payer and receiver; at the money (S = K) it rises strictly.
C17_PriceNonNegativeIncreasing ==
  \A j \in 1..Len(sw_prices) :
    /\ sw_prices[j] >= 0
    /\ \A i \in 1..(j - 1) :
         /\ sw_prices[i] <= sw_prices[j]
         /\ sw_in.S = sw_in.K => sw_prices[i] < sw_prices[j]

C17_Witness ==
  /\ Len(sw_prices) = Len(SwaptionSigmas)
  /\ sw_in.model = "lognormal" /\ sw_in.payer_receiver = "Receiver"
  /\ sw_in.S > sw_in.K /\ sw_in.shift > 0
  /\ sw_prices[1] = 0
  /\ \A i \in 3..(Len(sw_prices) - 1) : sw_prices[i] < sw_prices[i + 1]

\* C19: the integration runs over a fixed grid.  v_grid has 400 equally
\* spaced points from -8 to 8 and never changes once built; the integrand
\* is evaluated once at each point, in ascending order, and no value is
\* computed again; trapezoid is called once, after the 400 evaluations,
\* and yields one number; every step advances the count of statements
\* executed, which ends at 400 evaluations, one sum and one discounting.
StatementsExecuted ==
  CASE gstep = "v_grid" -> 0
    [] gstep = "integrand" -> g_k
    [] gstep = "npv" -> GridPoints + 2
    [] gstep = "done" -> GridPoints + 3

C19_GridState ==
  /\ gstep # "v_grid" =>
       /\ Len(v_grid) = GridPoints
       /\ v_grid[1] = (0 - 8) * FxOne
       /\ v_grid[GridPoints] = 8 * FxOne
       /\ \A k \in 1..(GridPoints - 1) :
            /\ v_grid[k + 1] > v_grid[k]
            /\ FxAbs((v_grid[k + 1] - v_grid[k]) - (v_grid[2] - v_grid[1])) <= 1
  /\ evals = SubSeq(v_grid, 1, Len(evals))
  /\ Len(integrand) = Len(evals)
  /\ trapezoids = (IF gstep \in {"npv", "done"} THEN 1 ELSE 0)
  /\ trapezoids = 1 => Len(evals) = GridPoints /\ undiscounted_payoff \in Int
  /\ gstep = "integrand" => g_k = Len(evals) + 1 /\ g_k <= GridPoints + 1

C19_GridStep ==
  /\ gstep # "v_grid" => v_grid' = v_grid
  /\ Len(integrand') \in {Len(integrand), Len(integrand) + 1}
  /\ SubSeq(integrand', 1, Len(integrand)) = integrand
  /\ gstep \in {"npv", "done"} => undiscounted_payoff' = undiscounted_payoff
  /\ StatementsExecuted' = StatementsExecuted + 1

C19_FixedGrid == [](C19_GridState) /\ [][C19_GridStep]_vars

C19_Witness == gstep = "done" /\ Len(evals) = GridPoints /\ trapezoids = 1

\* C18: the trapezoid value on the notebook's 400 points differs from the
\* value on 4000 points of [-8, 8] by less than 1e-4 of the latter.
C18_GridConverged ==
  gstep = "done" =>
    LET fine_grid == linspace(0 - 8, 8, 4000)
        fine == trapezoid([k \in 1..4000 |-> Integrand(g_in, fine_grid[k])], fine_grid, 4000)
    IN  FxAbs(undiscounted_payoff - fine) < FxAbs(fine) \div 10000

C18_Witness == gstep = "done" /\ g_in.T = 101111111 /\ undiscounted_payoff > 400000

C25_NumericSpreadIsBuilt ==
  \A i \in 1..Len(calls) :
    /\ (/\ calls[i].op = "npv"
        /\ "spread_eur" \in DOMAIN calls[i].inputs
        /\ calls[i].inputs.spread_eur # None) => calls[i].ok
    /\ calls[i].op = "fair_spread" => calls[i].err # "AttributeError"

(***************************************************************************)
(* Claims about the volcube cells (VSpec).                                 *)
(***************************************************************************)
\* C22: the volSpreads given to SwaptionVolCube2 has len(expiries) *
\* len(tenors) rows of len(strikeSpreads) columns; row r is the one the
\* source marks as (expiry r div len(tenors), tenor r mod len(tenors)),
\* counting from 0, and the cube reads it for that pair, column c for
\* strikeSpreads[c]; the column of strike spread 0 is 0 in every row, and
\* at ATM the volatility of the cube is that of the ATM matrix.
C22_Layout ==
  vstep = "built" =>
    /\ volCube.ok
    /\ Len(volSpreads) = Len(expiries) * Len(tenors)
    /\ \E c \in 1..Len(strikeSpreads) : strikeSpreads[c] = 0
    /\ \A r \in 1..Len(volSpreads) :
         /\ Len(volSpreads[r]) = Len(strikeSpreads)
         /\ ParseYears(CubeRowComments[r][1]) = expiries[((r - 1) \div Len(tenors)) + 1]
         /\ ParseYears(CubeRowComments[r][2]) = tenors[((r - 1) % Len(tenors)) + 1]
         /\ \A c \in 1..Len(strikeSpreads) :
              strikeSpreads[c] = 0 => volSpreads[r][c].quote = 0
    /\ \A i \in 1..Len(vol_queries) :
         LET q == vol_queries[i]
             atm == AtmVolatility(v_model, q.expiry, q.tenor)
         IN  /\ q.offset = 0 => q.vol = atm
             /\ \A r \in 1..Len(volSpreads), c \in 1..Len(strikeSpreads) :
                  (/\ ParseYears(CubeRowComments[r][1]) = q.expiry
                   /\ ParseYears(CubeRowComments[r][2]) = q.tenor
                   /\ strikeSpreads[c] = q.offset)
                  => q.vol = atm + CubeVolSpreads(v_model)[r][c]

C22_Witness ==
  /\ vstep = "built" /\ v_model = "normal" /\ Len(vol_queries) = 2
  /\ vol_queries[1] = [expiry |-> 5, tenor |-> 5, offset |-> 0, vol |-> 13577]
  /\ vol_queries[2] = [expiry |-> 2, tenor |-> 10, offset |-> 100, vol |-> 4730 + 8000]

(***************************************************************************)
(* Claims about get_drift (MSpec).                                         *)
(***************************************************************************)
\* C23: with the step h it uses, get_drift has 2h * psi_prime =
\* psi(S0+h) - psi(S0-h) and h^2 * psi_second = psi(S0+h) - 2 psi(S0) +
\* psi(S0-h); CMS_rate is S0 - 0.5 * S0^2 * sigma^2 * Talpha * psi_second /
\* psi_prime; the returned drift mu has S0 * exp(mu * Talpha) = CMS_rate
\* (to the last digits of the arithmetic), and it is 0 when sigma is 0.
C23_DriftFromCenteredDifference ==
  LET hh == HpFromFx(m_h)
  IN  /\ mstep = "psi_prime" =>
           /\ psi_plus = psi(HpAdd(m_S0, hh), m_args.swap.fixedSchedule)
           /\ psi_minus = psi(HpSub(m_S0, hh), m_args.swap.fixedSchedule)
           /\ psi_zero = psi(m_S0, m_args.swap.fixedSchedule)
      /\ psi_prime # None =>
           HpMul(HpMulInt(hh, 2), psi_prime) = HpSub(psi_plus, psi_minus)
      /\ psi_second # None =>
           HpMul(HpMul(hh, hh), psi_second)
             = HpAdd(HpSub(psi_plus, HpMulInt(psi_zero, 2)), psi_minus)
      /\ CMS_rate # None =>
           LET sigma_squared == HpMul(HpFromFx(m_args.sigma), HpFromFx(m_args.sigma))
               S0_squared == HpMul(m_S0, m_S0)
               adjustment == HpDiv(HpMul(HpMul(HpMul(HpDivInt(S0_squared, 2), sigma_squared),
                                               HpFromFx(Talpha)), psi_second), psi_prime)
           IN  CMS_rate = HpSub(m_S0, adjustment)
      /\ mstep = "returned" =>
           /\ FxAbs(FxMul(HpToFx(m_S0), FxExp(FxMul(m_ret, Talpha))) - HpToFx(CMS_rate)) <= 2
           /\ m_args.sigma = 0 => m_ret = 0

C23_Witness ==
  /\ mstep = "returned" /\ m_args.sigma = 20000000 /\ Len(m_schedule) = 11
  /\ m_h = 10000 /\ psi_prime[1] = 0 - 12 /\ psi_second[1] = 46 /\ m_ret = 425534
  /\ m_last # None /\ m_last.sigma = 0 /\ m_last.drift = 0

\* C24: after line 109 the step of every call is 0.0001 whatever its h
\* argument, and two calls that differ at most in the h argument return
\* the same drift.
C24_DriftIgnoresStepArgument ==
  /\ mstep \notin {"idle", "call", "schedule", "h"} => m_h = 10000
  /\ m_last # None => m_last.h = 10000
  /\ (/\ mstep = "returned" /\ m_last # None
      /\ m_last.swap = m_args.swap /\ m_last.sigma = m_args.sigma)
     => m_last.drift = m_ret

C24_Witness ==
  /\ mstep = "returned" /\ m_last # None
  /\ m_last.swap = m_args.swap /\ m_last.sigma = m_args.sigma /\ m_args.sigma > 0
  /\ m_last.h_arg = 1000000 /\ m_args.h = 10000
  /\ m_last.h = m_h /\ m_last.drift = m_ret /\ m_ret > 0

====
